---- MODULE Spec2Model ----
(***************************************************************************)
(* LocalCloud: the file lifecycle and versioning engine (FileService) and  *)
(* the folder tree manager (FolderService) over the relational store        *)
(* (tables User, File, FileVersion, Folder).                                *)
(*                                                                          *)
(* Representation.                                                          *)
(*   - ids are the naturals 1, 2, ... handed out in order and never reused  *)
(*     (the store's primary keys are fresh); 0 is SQL NULL for an id.       *)
(*   - a timestamp is a value of the clock (>= 1); 0 is SQL NULL.  A row's  *)
(*     createdAt is the ordinal of its insert: rows are stamped in the      *)
(*     order they are created.                                              *)
(*   - a payload (Buffer / BLOB) is a sequence of blocks of MB_IN_BYTES     *)
(*     bytes each, so its byte length is Len * MB_IN_BYTES.                 *)
(*   - a name is a sequence of one-character strings.                       *)
(*   - a nullable integer column is <<>> (NULL) or <<n>>.                   *)
(* Each action is one service call executed as a whole, except in the      *)
(* specification of uploads in flight, where uploadFile is taken one await  *)
(* at a time and may be cut short between two of them.                      *)
(***************************************************************************)
EXTENDS Integers, Sequences, FiniteSets, TLC

\* ------------------------------------------------------------------ bounds
MaxFiles == 3
MaxVersions == 2
MaxFolders == 3
MaxClock == 2
MaxFilesInTree == 2
MaxFoldersInPurge == 2
MaxInFlight == 2

\* --------------------------------------------------------------- constants
MB_IN_BYTES == 1024 * 1024

Users == {"u1", "u2"}

NULL == 0

\* User.storageLimitMb of the registered accounts (INTEGER, nullable): u1
\* registered while the default was 4, u2 carries NULL.
UserStorageLimitMb == [u \in Users |-> IF u = "u1" THEN <<4>> ELSE <<>>]

\* Values of DEFAULT_STORAGE_LIMIT_MB the process is started with.
DefaultLimitMbChoices == {2}

\* Values the column User.storageLimitMb (INTEGER, nullable, no CHECK) and
\* the variable DEFAULT_STORAGE_LIMIT_MB can hold: <<>> is NULL.
StoredLimitMbArgs == {<<>>, <<-1>>, <<0>>, <<1>>, <<4>>}
DefaultLimitMbArgs == {-1, 0, 2}

\* ------------------------------------------------------------------ inputs
ByteLength(buffer) == Len(buffer) * MB_IN_BYTES

\* An Express.Multer.File as multer's memoryStorage builds it: size is the
\* byte length of the buffer.
MulterFile(originalname, mimetype, buffer) ==
  [originalname |-> originalname, mimetype |-> mimetype, hasBuffer |-> TRUE,
   buffer |-> buffer, size |-> ByteLength(buffer)]

FileA == MulterFile(<<"a", ".", "t">>, "text/plain", <<"x">>)
FileB == MulterFile(<<"b">>, "image/png", <<"x", "y">>)
FileEmpty == MulterFile(<<>>, "text/plain", <<>>)

UploadFiles == {FileA, FileB}

\* A request whose file carries no buffer.
FileNoBuffer == [FileA EXCEPT !.hasBuffer = FALSE]

FolderNames == {<<"D">>, <<" ", "D", " ">>, <<"E">>, <<" ">>}
FolderNamesD == {<<"D">>, <<" ", "D", " ">>, <<" ">>}

\* ------------------------------------------------------------------- state
VARIABLES
  defaultLimitMb,  \* the process-wide default ceiling (MB)
  files,           \* table File: id -> row
  versions,        \* table FileVersion: id -> row
  folders,         \* table Folder: id -> row
  nextFileId, nextVersionId, nextFolderId,
  clock,           \* the wall clock read by new Date() / CURRENT_TIMESTAMP
  inFlight,        \* the uploadFile calls suspended at an await
  last             \* the last service call: its arguments and its outcome

vars == <<defaultLimitMb, files, versions, folders,
          nextFileId, nextVersionId, nextFolderId, clock, inFlight, last>>


\* ----------------------------------------------------------------- helpers
RECURSIVE SumOver(_, _)
SumOver(f, S) ==
  IF S = {} THEN 0
  ELSE LET x == CHOOSE y \in S : TRUE IN f[x] + SumOver(f, S \ {x})

AlnumDashUnderscore ==
  {"a","b","c","d","e","f","g","h","i","j","k","l","m","n","o","p","q","r","s",
   "t","u","v","w","x","y","z","A","B","C","D","E","F","G","H","I","J","K","L",
   "M","N","O","P","Q","R","S","T","U","V","W","X","Y","Z","0","1","2","3","4",
   "5","6","7","8","9","-","_"}

Whitespace == {" "}

RECURSIVE trimStart(_)
trimStart(s) ==
  IF s # <<>> /\ Head(s) \in Whitespace THEN trimStart(Tail(s)) ELSE s

RECURSIVE trimEnd(_)
trimEnd(s) ==
  IF s # <<>> /\ s[Len(s)] \in Whitespace
  THEN trimEnd(SubSeq(s, 1, Len(s) - 1)) ELSE s

trim(s) == trimEnd(trimStart(s))

sanitizeSegment(segment) ==
  LET replaced == [i \in 1..Len(segment) |->
                     IF segment[i] \in AlnumDashUnderscore THEN segment[i] ELSE "_"]
      trimmed == trim(replaced)
  IN IF trimmed = <<>> THEN <<"f", "o", "l", "d", "e", "r">> ELSE trimmed

\* sha256 is collision-free on the payloads of the model: the digest is a
\* tagged encoding of the payload, distinct from the payload itself.
calculateContentHash(buffer) == <<"sha256">> \o buffer

\* ------------------------------------------------------------ quota ledger
\* The limit computed from the column read (<<>> for NULL or no row, <<n>>
\* otherwise) and the process default: user?.storageLimitMb ?? defaultLimitMb,
\* then the test !limitMb || limitMb <= 0.
limitBytesFrom(stored, default) ==
  LET limitMb == IF stored # <<>> THEN stored[1] ELSE default
  IN IF limitMb = 0 \/ limitMb <= 0 THEN NULL ELSE limitMb * MB_IN_BYTES

resolveUserLimitBytes(userId) ==
  limitBytesFrom(UserStorageLimitMb[userId], defaultLimitMb)

\* A variant that leaves the archived versions out of the sum.
getUserUsageBytes_FilesOnly(userId) ==
  LET mine == {id \in DOMAIN files : files[id].userId = userId}
  IN SumOver([id \in mine |-> files[id].size], mine)

\* A variant that counts the non-deleted files only.
getUserUsageBytes_ActiveOnly(userId) ==
  LET mine == {id \in DOMAIN files :
                 files[id].userId = userId /\ ~files[id].isDeleted}
      mineV == {v \in DOMAIN versions :
                  versions[v].fileId \in DOMAIN files
                  /\ files[versions[v].fileId].userId = userId}
  IN SumOver([id \in mine |-> files[id].size], mine)
     + SumOver([v \in mineV |-> versions[v].size], mineV)

getUserUsageBytes(userId) ==
  LET mine == {id \in DOMAIN files : files[id].userId = userId}
      mineV == {v \in DOMAIN versions :
                  versions[v].fileId \in DOMAIN files
                  /\ files[versions[v].fileId].userId = userId}
  IN SumOver([id \in mine |-> files[id].size], mine)
     + SumOver([v \in mineV |-> versions[v].size], mineV)

\* A variant that tests the usage alone against the limit.
ensureStorageAvailable_UsageOnly(userId, bytesToAdd) ==
  IF bytesToAdd <= 0 THEN "ok"
  ELSE LET limitBytes == resolveUserLimitBytes(userId) IN
       IF limitBytes = NULL THEN "ok"
       ELSE IF getUserUsageBytes(userId) > limitBytes
            THEN "StorageLimitExceeded"
            ELSE "ok"

\* A variant that admits every upload.
ensureStorageAvailable_NoCheck(userId, bytesToAdd) == "ok"

\* "ok", or the error thrown.
ensureStorageAvailable(userId, bytesToAdd) ==
  IF bytesToAdd <= 0 THEN "ok"
  ELSE LET limitBytes == resolveUserLimitBytes(userId) IN
       IF limitBytes = NULL THEN "ok"
       ELSE IF getUserUsageBytes(userId) + bytesToAdd > limitBytes
            THEN "StorageLimitExceeded"
            ELSE "ok"

\* <<result, folder id>>: the id is NULL when no folder was asked for.
validateFolderOwnership(userId, folderId) ==
  IF folderId = NULL THEN <<"ok", NULL>>
  ELSE IF folderId \in DOMAIN folders /\ folders[folderId].userId = userId
       THEN <<"ok", folderId>>
       ELSE <<"FolderNotFound", NULL>>

\* ----------------------------------------------------------- PythonService
\* The conditions a call of the client can meet: isAvailable is the flag the
\* client cached, health what GET /health answers now, reply what the
\* request itself meets ("timeout", "refused" and "status500" make axios
\* reject; "malformed" is a 2xx body of no known shape).
CollaboratorHealth == {"healthy", "unhealthy", "unreachable"}
CollaboratorReplies ==
  {"success", "failure", "malformed", "timeout", "refused", "status500"}
AxiosRejections == {"timeout", "refused", "status500"}

CollaboratorStates ==
  [isAvailable : BOOLEAN, health : CollaboratorHealth,
   reply : CollaboratorReplies]

\* What an async method hands its caller: a value, or a rejection.
Returned(value) == [raised |-> FALSE, value |-> value]
Rejected == [raised |-> TRUE, value |-> "error"]

\* checkAvailability: response.data.status === 'healthy', false on a throw.
checkAvailability(collaborator) == collaborator.health = "healthy"

ensureAvailable(collaborator) ==
  IF ~collaborator.isAvailable THEN checkAvailability(collaborator)
  ELSE collaborator.isAvailable

\* A variant without the try/catch around the request.
processFile_NoCatch(fileId, userId, fileBuffer, filename, collaborator) ==
  IF ~ensureAvailable(collaborator) THEN Returned("null")
  ELSE IF collaborator.reply \in AxiosRejections THEN Rejected
  ELSE Returned(collaborator.reply)

\* processFile: null when the service is not available or the request
\* throws, response.data otherwise.
processFile(fileId, userId, fileBuffer, filename, collaborator) ==
  IF ~ensureAvailable(collaborator) THEN Returned("null")
  ELSE IF collaborator.reply \in AxiosRejections THEN Returned("null")
  ELSE Returned(collaborator.reply)

\* removeVector: false when the service is not available or the request
\* throws, true otherwise.
removeVector(fileId, collaborator) ==
  IF ~ensureAvailable(collaborator) THEN Returned("false")
  ELSE IF collaborator.reply \in AxiosRejections THEN Returned("false")
  ELSE Returned("true")

\* What GET /ai/search can answer with: an entry of results carries a
\* file_id (0 when it has none) and a metadata.user_id ("" when it has
\* none), or is null.
SearchEntry(file_id, user_id) ==
  [isNull |-> FALSE, file_id |-> file_id, user_id |-> user_id, score |-> 1]

NullEntry == [isNull |-> TRUE, file_id |-> 0, user_id |-> "", score |-> 0]

SearchResponse(success, isArray, results) ==
  [isNull |-> FALSE, success |-> success, isArray |-> isArray,
   results |-> results]

NullResponse ==
  [isNull |-> TRUE, success |-> FALSE, isArray |-> FALSE, results |-> <<>>]

\* pythonService.semanticSearch: null when the service is not available or
\* the request throws, response.data otherwise.
pythonService_semanticSearch(collaborator, data) ==
  IF ~ensureAvailable(collaborator) THEN NullResponse
  ELSE IF collaborator.reply \in AxiosRejections THEN NullResponse
  ELSE data

\* ------------------------------------------------------------------ AIService
\* A variant whose findMany leaves the userId condition out.
semanticSearch_AnyOwner(userId, response) ==
  IF response.isNull \/ ~response.success \/ ~response.isArray
  THEN Returned(<<>>)
  ELSE IF \E i \in DOMAIN response.results : response.results[i].isNull
  THEN Rejected
  ELSE
    LET mine(entry) == entry.user_id = "" \/ entry.user_id = userId
        filteredResults == SelectSeq(response.results, mine)
        hasId(entry) == entry.file_id # 0
        ids == {filteredResults[i].file_id :
                  i \in {j \in DOMAIN filteredResults :
                           hasId(filteredResults[j])}}
        found == {id \in DOMAIN files : id \in ids /\ ~files[id].isDeleted}
        known(entry) == entry.file_id \in found
        hits == SelectSeq(filteredResults, known)
    IN IF ids = {} THEN Returned(<<>>)
       ELSE Returned([i \in DOMAIN hits |->
                        [file |-> hits[i].file_id, score |-> hits[i].score]])

\* AIService.semanticSearch, response being what pythonService.semanticSearch
\* resolved to: a null entry of results makes the filter callback throw.
semanticSearch(userId, response) ==
  IF response.isNull \/ ~response.success \/ ~response.isArray
  THEN Returned(<<>>)
  ELSE IF \E i \in DOMAIN response.results : response.results[i].isNull
  THEN Rejected
  ELSE
    LET mine(entry) == entry.user_id = "" \/ entry.user_id = userId
        filteredResults == SelectSeq(response.results, mine)
        hasId(entry) == entry.file_id # 0
        ids == {filteredResults[i].file_id :
                  i \in {j \in DOMAIN filteredResults :
                           hasId(filteredResults[j])}}
        found == {id \in DOMAIN files :
                    /\ id \in ids
                    /\ files[id].userId = userId
                    /\ ~files[id].isDeleted}
        known(entry) == entry.file_id \in found
        hits == SelectSeq(filteredResults, known)
    IN IF ids = {} THEN Returned(<<>>)
       ELSE Returned([i \in DOMAIN hits |->
                        [file |-> hits[i].file_id, score |-> hits[i].score]])

\* The outcome of a primary operation whose checks and writes ended with
\* result and which then awaited the client call given: the write is
\* committed before the call, and a rejection of the call would reach the
\* caller.
afterCollaboratorCall(result, call) ==
  IF result # "ok" THEN result
  ELSE IF call.raised THEN "CollaboratorError"
  ELSE "ok"

\* ------------------------------------------------------------ the last call
\* The last call that succeeded: the operation, the caller and the row it made
\* or changed.  A call that throws returns its error (the ...Result operators)
\* and leaves no trace in the state.
Call(op, userId, id) == [op |-> op, userId |-> userId, id |-> id]

Init ==
  /\ defaultLimitMb \in DefaultLimitMbChoices
  /\ files = << >>
  /\ versions = << >>
  /\ folders = << >>
  /\ nextFileId = 1
  /\ nextVersionId = 1
  /\ nextFolderId = 1
  /\ clock \in 1..MaxClock
  /\ inFlight = {}
  /\ last = Call("none", "-", NULL)

\* Time passes between calls (last still names the last service call).
Tick ==
  /\ clock < MaxClock
  /\ clock' = clock + 1
  /\ UNCHANGED <<defaultLimitMb, inFlight, files, versions, folders,
                 nextFileId, nextVersionId, nextFolderId, last>>

\* ------------------------------------------------------------- FileService
\* A variant that looks the file up by id alone.
findFile_AnyOwner(fileId, userId) == fileId \in DOMAIN files

\* prisma.file.findFirst({ where: { id, userId } })
findFile(fileId, userId) ==
  fileId \in DOMAIN files /\ files[fileId].userId = userId

versionsOf(fileId) == {v \in DOMAIN versions : versions[v].fileId = fileId}

\* The outcome of uploadFile's checks, in the order the code makes them.
uploadFileResult(userId, file, isVersion, parentFileId, folderId) ==
  IF ~file.hasBuffer THEN "FileBufferNotAvailable"
  ELSE IF isVersion /\ parentFileId # NULL
  THEN IF ~findFile(parentFileId, userId) THEN "ParentFileNotFound"
       ELSE ensureStorageAvailable(userId, file.size)
  ELSE IF ensureStorageAvailable(userId, file.size) # "ok"
       THEN ensureStorageAvailable(userId, file.size)
       ELSE validateFolderOwnership(userId, folderId)[1]

\* A variant that numbers the archived copy with the count of versions.
archivedVersion_NoIncrement(parentFileId, existingFile, versionNumber) ==
  [fileId |-> parentFileId, content |-> existingFile.content,
   size |-> existingFile.size, version |-> versionNumber - 1,
   mimeType |-> existingFile.mimeType]

\* prisma.fileVersion.create: the archived copy of the parent's current row.
archivedVersion(parentFileId, existingFile, versionNumber) ==
  [fileId |-> parentFileId, content |-> existingFile.content,
   size |-> existingFile.size, version |-> versionNumber,
   mimeType |-> existingFile.mimeType]

\* A variant that keeps the size of the payload replaced.
replacedFile_KeepsSize(existingFile, file) ==
  [existingFile EXCEPT !.name = sanitizeSegment(file.originalname),
                       !.originalName = file.originalname,
                       !.mimeType = file.mimetype,
                       !.content = file.buffer]

\* A variant that computes the digest of the new payload.
replacedFile_NewDigest(existingFile, file) ==
  [existingFile EXCEPT !.name = sanitizeSegment(file.originalname),
                       !.originalName = file.originalname,
                       !.size = file.size,
                       !.mimeType = file.mimetype,
                       !.content = file.buffer,
                       !.contentHash = calculateContentHash(file.buffer)]

\* prisma.file.update of the version branch.
replacedFile(existingFile, file) ==
  [existingFile EXCEPT !.name = sanitizeSegment(file.originalname),
                       !.originalName = file.originalname,
                       !.size = file.size,
                       !.mimeType = file.mimetype,
                       !.content = file.buffer]

\* prisma.file.create of the create branch.
createdFile(userId, file, targetFolderId, contentHash) ==
  [userId |-> userId, folderId |-> targetFolderId,
   name |-> sanitizeSegment(file.originalname),
   originalName |-> file.originalname, size |-> file.size,
   mimeType |-> file.mimetype, content |-> file.buffer,
   contentHash |-> contentHash, isDeleted |-> FALSE, deletedAt |-> NULL,
   createdAt |-> nextFileId]

\* The tables File and FileVersion after uploadFile returns or throws.
uploadFileWrites(userId, file, isVersion, parentFileId, folderId) ==
  IF uploadFileResult(userId, file, isVersion, parentFileId, folderId) # "ok"
  THEN [files |-> files, versions |-> versions]
  ELSE IF isVersion /\ parentFileId # NULL
  THEN LET existingFile == files[parentFileId]
           versionNumber == Cardinality(versionsOf(parentFileId)) + 1
       IN [versions |-> versions @@
             (nextVersionId :> archivedVersion(parentFileId, existingFile, versionNumber)),
           files |-> [files EXCEPT ![parentFileId] = replacedFile(existingFile, file)]]
  ELSE LET targetFolderId == validateFolderOwnership(userId, folderId)[2]
           contentHash == calculateContentHash(file.buffer)
       IN [versions |-> versions,
           files |-> files @@
             (nextFileId :> createdFile(userId, file, targetFolderId, contentHash))]

uploadFile(userId, file, isVersion, parentFileId, folderId) ==
  LET writes == uploadFileWrites(userId, file, isVersion, parentFileId, folderId) IN
  /\ files' = writes.files
  /\ versions' = writes.versions
  /\ IF uploadFileResult(userId, file, isVersion, parentFileId, folderId) # "ok"
     THEN UNCHANGED <<nextFileId, nextVersionId, last>>
     ELSE IF isVersion /\ parentFileId # NULL
     THEN /\ nextVersionId <= MaxVersions
          /\ nextVersionId' = nextVersionId + 1
          /\ last' = Call("uploadVersion", userId, parentFileId)
          /\ UNCHANGED nextFileId
     ELSE /\ nextFileId <= MaxFiles
          /\ nextFileId' = nextFileId + 1
          /\ last' = Call("uploadFile", userId, nextFileId)
          /\ UNCHANGED nextVersionId

\* ---- uploadFile, one await at a time
\* The locals of a suspended call: existingFile is <<>> or <<row>>, the row
\* read by findFirst; usageSeen is the usage ensureStorageAvailable read;
\* stage is "checked" after the last check, "counted" after
\* prisma.fileVersion.count, "archived" after prisma.fileVersion.create;
\* versionNumber is the count read plus one, versionId the row that create
\* made.
Request(slot, userId, file, isVersion, parentFileId, targetFolderId) ==
  [slot |-> slot, userId |-> userId, file |-> file, isVersion |-> isVersion,
   parentFileId |-> parentFileId, targetFolderId |-> targetFolderId,
   existingFile |-> IF isVersion THEN <<files[parentFileId]>> ELSE <<>>,
   usageSeen |-> getUserUsageBytes(userId),
   stage |-> "checked", versionNumber |-> NULL, versionId |-> NULL]

freeSlot ==
  CHOOSE slot \in 1..MaxInFlight + 1 :
    /\ \A req \in inFlight : req.slot # slot
    /\ \A lower \in 1..slot - 1 : \E req \in inFlight : req.slot = lower

\* The call runs its checks and is suspended before its first write.
uploadFileChecked(userId, file, isVersion, parentFileId, folderId) ==
  /\ uploadFileResult(userId, file, isVersion, parentFileId, folderId) = "ok"
  /\ Cardinality(inFlight) < MaxInFlight
  /\ inFlight' = inFlight \cup
       {Request(freeSlot, userId, file, isVersion /\ parentFileId # NULL,
                parentFileId, validateFolderOwnership(userId, folderId)[2])}
  /\ UNCHANGED <<files, versions, nextFileId, nextVersionId, last>>

\* prisma.fileVersion.count of the version branch.
uploadFileCounted(req) ==
  /\ req.stage = "checked"
  /\ req.isVersion
  /\ inFlight' = (inFlight \ {req}) \cup
       {[req EXCEPT !.stage = "counted",
                    !.versionNumber =
                      Cardinality(versionsOf(req.parentFileId)) + 1]}
  /\ UNCHANGED <<files, versions, nextFileId, nextVersionId, last>>

\* prisma.fileVersion.create of the version branch; the insert fails on the
\* foreign key when the parent row is gone.
uploadFileArchived(req) ==
  /\ req.stage = "counted"
  /\ IF req.parentFileId \notin DOMAIN files
     THEN /\ inFlight' = inFlight \ {req}
          /\ UNCHANGED <<files, versions, nextFileId, nextVersionId, last>>
     ELSE /\ nextVersionId <= MaxVersions
          /\ versions' = versions @@
               (nextVersionId :>
                  archivedVersion(req.parentFileId, req.existingFile[1],
                                  req.versionNumber))
          /\ nextVersionId' = nextVersionId + 1
          /\ inFlight' = (inFlight \ {req}) \cup
               {[req EXCEPT !.stage = "archived", !.versionId = nextVersionId]}
          /\ UNCHANGED <<files, nextFileId, last>>

\* prisma.file.update of the version branch; it throws when the row is gone.
uploadFileReplaced(req) ==
  /\ req.stage = "archived"
  /\ inFlight' = inFlight \ {req}
  /\ IF req.parentFileId \notin DOMAIN files
     THEN UNCHANGED <<files, last>>
     ELSE /\ files' = [files EXCEPT ![req.parentFileId] =
                         replacedFile(files[req.parentFileId], req.file)]
          /\ last' = Call("uploadVersion", req.userId, req.parentFileId)
  /\ UNCHANGED <<versions, nextFileId, nextVersionId>>

\* prisma.file.create of the create branch.
uploadFileCreated(req) ==
  /\ req.stage = "checked"
  /\ ~req.isVersion
  /\ nextFileId <= MaxFiles
  /\ files' = files @@
       (nextFileId :> createdFile(req.userId, req.file, req.targetFolderId,
                                  calculateContentHash(req.file.buffer)))
  /\ nextFileId' = nextFileId + 1
  /\ inFlight' = inFlight \ {req}
  /\ last' = Call("uploadFile", req.userId, nextFileId)
  /\ UNCHANGED <<versions, nextVersionId>>

\* The call ends at an await without running the statements after it: the
\* process stops, or the store rejects the next statement.  Nothing undoes
\* the writes already made: no statement of uploadFile runs in a transaction.
uploadFileInterrupted(req) ==
  /\ inFlight' = inFlight \ {req}
  /\ IF req.stage = "archived"
     THEN last' = Call("uploadVersionInterrupted", req.userId, req.versionId)
     ELSE UNCHANGED last
  /\ UNCHANGED <<files, versions, nextFileId, nextVersionId>>

UploadChecked ==
  \E userId \in Users, file \in UploadFiles :
    /\ \/ uploadFileChecked(userId, file, FALSE, NULL, NULL)
       \/ \E fileId \in 1..MaxFiles :
            uploadFileChecked(userId, file, TRUE, fileId, NULL)
    /\ UNCHANGED <<defaultLimitMb, folders, nextFolderId, clock>>

UploadCounted ==
  \E req \in inFlight :
    /\ uploadFileCounted(req)
    /\ UNCHANGED <<defaultLimitMb, folders, nextFolderId, clock>>

UploadArchived ==
  \E req \in inFlight :
    /\ uploadFileArchived(req)
    /\ UNCHANGED <<defaultLimitMb, folders, nextFolderId, clock>>

UploadReplaced ==
  \E req \in inFlight :
    /\ uploadFileReplaced(req)
    /\ UNCHANGED <<defaultLimitMb, folders, nextFolderId, clock>>

UploadCreated ==
  \E req \in inFlight :
    /\ uploadFileCreated(req)
    /\ UNCHANGED <<defaultLimitMb, folders, nextFolderId, clock>>

UploadInterrupted ==
  \E req \in inFlight :
    /\ uploadFileInterrupted(req)
    /\ UNCHANGED <<defaultLimitMb, folders, nextFolderId, clock>>

\* FileController.uploadFile: POST /upload
UploadFileOf(uploads) ==
  \E userId \in Users, file \in uploads, folderId \in 0..MaxFolders :
    /\ uploadFile(userId, file, FALSE, NULL, folderId)
    /\ UNCHANGED <<defaultLimitMb, inFlight, folders, nextFolderId, clock>>

UploadFile == UploadFileOf(UploadFiles)

\* FileController.uploadVersion: POST /:fileId/version
UploadVersion ==
  \E userId \in Users, file \in UploadFiles, fileId \in 1..MaxFiles :
    /\ uploadFile(userId, file, TRUE, fileId, NULL)
    /\ UNCHANGED <<defaultLimitMb, inFlight, folders, nextFolderId, clock>>

\* downloadFile against the table File given: the record returned, or the
\* error thrown.
downloadFileFrom(fileTable, fileId, userId) ==
  IF fileId \in DOMAIN fileTable /\ fileTable[fileId].userId = userId
  THEN [result |-> "ok", originalName |-> fileTable[fileId].originalName,
        mimeType |-> fileTable[fileId].mimeType,
        content |-> fileTable[fileId].content,
        size |-> fileTable[fileId].size]
  ELSE [result |-> "FileNotFound", originalName |-> <<>>, mimeType |-> "",
        content |-> <<>>, size |-> 0]

downloadFile(fileId, userId) == downloadFileFrom(files, fileId, userId)

getFileById(fileId, userId) ==
  IF findFile(fileId, userId) THEN "ok" ELSE "FileNotFound"

\* A variant that serves the parent file's current payload.
downloadVersionFrom_Current(fileTable, versionTable, versionId, userId) ==
  IF versionId \in DOMAIN versionTable
     /\ versionTable[versionId].fileId \in DOMAIN fileTable
     /\ fileTable[versionTable[versionId].fileId].userId = userId
  THEN [result |-> "ok", version |-> versionTable[versionId].version,
        size |-> versionTable[versionId].size,
        mimeType |-> versionTable[versionId].mimeType,
        content |-> fileTable[versionTable[versionId].fileId].content]
  ELSE [result |-> "VersionNotFound", version |-> 0, size |-> 0,
        mimeType |-> "", content |-> <<>>]

\* downloadVersion against the tables given: prisma.fileVersion.findUnique
\* ({ where: { id: versionId } }), then the test of version.file.userId.
downloadVersionFrom(fileTable, versionTable, versionId, userId) ==
  IF versionId \in DOMAIN versionTable
     /\ versionTable[versionId].fileId \in DOMAIN fileTable
     /\ fileTable[versionTable[versionId].fileId].userId = userId
  THEN [result |-> "ok", version |-> versionTable[versionId].version,
        size |-> versionTable[versionId].size,
        mimeType |-> versionTable[versionId].mimeType,
        content |-> versionTable[versionId].content]
  ELSE [result |-> "VersionNotFound", version |-> 0, size |-> 0,
        mimeType |-> "", content |-> <<>>]

downloadVersion(versionId, userId) ==
  downloadVersionFrom(files, versions, versionId, userId)

\* The version ids listed, or the error.
getFileVersions(fileId, userId) ==
  IF getFileById(fileId, userId) = "ok"
  THEN [result |-> "ok", versions |-> versionsOf(fileId)]
  ELSE [result |-> "FileNotFound", versions |-> {}]

deleteFileResult(fileId, userId) ==
  IF findFile(fileId, userId) THEN "ok" ELSE "FileNotFound"

\* A variant that leaves the FileVersion table alone.
versionsWithout_KeepsAll(fileId) == versions

\* A variant that empties the FileVersion table.
versionsWithout_DropsAll(fileId) == << >>

\* prisma.fileVersion.deleteMany({ where: { fileId } })
versionsWithout(fileId) ==
  [v \in DOMAIN versions \ versionsOf(fileId) |-> versions[v]]

\* A variant that also empties the payload.
softDeletedFile_DropsPayload(row, at) ==
  [row EXCEPT !.isDeleted = TRUE, !.deletedAt = at, !.content = <<>>]

\* A variant that also forgets the digest.
softDeletedFile_DropsDigest(row, at) ==
  [row EXCEPT !.isDeleted = TRUE, !.deletedAt = at, !.contentHash = <<>>]

\* prisma.file.update: the soft delete, at new Date() = at.
softDeletedFile(row, at) == [row EXCEPT !.isDeleted = TRUE, !.deletedAt = at]

\* The tables File and FileVersion after deleteFile returns or throws.
deleteFileWrites(fileId, userId, permanent, at) ==
  IF deleteFileResult(fileId, userId) # "ok"
  THEN [files |-> files, versions |-> versions]
  ELSE IF permanent
  THEN [versions |-> versionsWithout(fileId),
        files |-> [id \in DOMAIN files \ {fileId} |-> files[id]]]
  ELSE [versions |-> versions,
        files |-> [files EXCEPT ![fileId] = softDeletedFile(files[fileId], at)]]

deleteFile(fileId, userId, permanent) ==
  LET writes == deleteFileWrites(fileId, userId, permanent, clock) IN
  /\ files' = writes.files
  /\ versions' = writes.versions
  /\ IF deleteFileResult(fileId, userId) # "ok"
     THEN UNCHANGED last
     ELSE last' = Call(IF permanent THEN "deleteFilePermanent" ELSE "deleteFile",
                       userId, fileId)

\* FileController.deleteFile: DELETE /:fileId
SoftDeleteFile ==
  \E userId \in Users, fileId \in 1..MaxFiles :
    /\ deleteFile(fileId, userId, FALSE)
    /\ UNCHANGED <<defaultLimitMb, inFlight, folders, nextFileId, nextVersionId,
                   nextFolderId, clock>>

\* FileController.deleteFile: DELETE /:fileId?permanent=true
PermanentDeleteFile ==
  \E userId \in Users, fileId \in 1..MaxFiles :
    /\ deleteFile(fileId, userId, TRUE)
    /\ UNCHANGED <<defaultLimitMb, inFlight, folders, nextFileId, nextVersionId,
                   nextFolderId, clock>>

\* deleteFile(fileId, userId, true), one await at a time.
DeleteRequest(slot, userId, fileId) ==
  [slot |-> slot, op |-> "deleteFilePermanent", userId |-> userId,
   fileId |-> fileId, stage |-> "deleteFound"]

\* prisma.file.findFirst: it throws when no row matches.
deleteFileFound(fileId, userId) ==
  /\ deleteFileResult(fileId, userId) = "ok"
  /\ Cardinality(inFlight) < MaxInFlight
  /\ inFlight' = inFlight \cup {DeleteRequest(freeSlot, userId, fileId)}
  /\ UNCHANGED <<files, versions, last>>

\* prisma.fileVersion.deleteMany
deleteFileVersionsPurged(req) ==
  /\ req.stage = "deleteFound"
  /\ versions' = versionsWithout(req.fileId)
  /\ inFlight' = (inFlight \ {req}) \cup
       {[req EXCEPT !.stage = "versionsPurged"]}
  /\ UNCHANGED <<files, last>>

\* A variant of the foreign key without ON DELETE CASCADE, the delete of the
\* parent row going through.
onDeleteCascade_KeepsRows(fileId) == versions

\* FileVersion_fileId_fkey, ON DELETE CASCADE: the rows that go with the
\* File row deleted.
onDeleteCascade(fileId) ==
  [v \in DOMAIN versions \ versionsOf(fileId) |-> versions[v]]

\* prisma.file.delete: it throws when the row is gone.
deleteFilePurged(req) ==
  /\ req.stage = "versionsPurged"
  /\ inFlight' = inFlight \ {req}
  /\ IF req.fileId \notin DOMAIN files
     THEN UNCHANGED <<files, versions, last>>
     ELSE /\ files' = [id \in DOMAIN files \ {req.fileId} |-> files[id]]
          /\ versions' = onDeleteCascade(req.fileId)
          /\ last' = Call("deleteFilePermanent", req.userId, req.fileId)

DeleteFound ==
  \E userId \in Users, fileId \in 1..MaxFiles :
    /\ deleteFileFound(fileId, userId)
    /\ UNCHANGED <<defaultLimitMb, folders, nextFileId, nextVersionId,
                   nextFolderId, clock>>

DeleteVersionsPurged ==
  \E req \in inFlight :
    /\ deleteFileVersionsPurged(req)
    /\ UNCHANGED <<defaultLimitMb, folders, nextFileId, nextVersionId,
                   nextFolderId, clock>>

DeleteFilePurged ==
  \E req \in inFlight :
    /\ deleteFilePurged(req)
    /\ UNCHANGED <<defaultLimitMb, folders, nextFileId, nextVersionId,
                   nextFolderId, clock>>

\* Uploads of FileA, each suspended before its first write.
UploadCheckedA ==
  \E userId \in Users :
    /\ \/ uploadFileChecked(userId, FileA, FALSE, NULL, NULL)
       \/ \E fileId \in 1..MaxFilesInTree :
            uploadFileChecked(userId, FileA, TRUE, fileId, NULL)
    /\ UNCHANGED <<defaultLimitMb, folders, nextFolderId, clock>>

UploadCreatedInTree ==
  nextFileId <= MaxFilesInTree /\ UploadCreated

\* A variant whose lookup leaves the isDeleted condition out.
restoreFileResultIn_AnyState(fileTable, fileId, userId) ==
  IF fileId \in DOMAIN fileTable /\ fileTable[fileId].userId = userId
  THEN "ok" ELSE "DeletedFileNotFound"

\* restoreFile against the table File given: prisma.file.findFirst
\* ({ where: { id: fileId, userId, isDeleted: true } }).
restoreFileResultIn(fileTable, fileId, userId) ==
  IF /\ fileId \in DOMAIN fileTable
     /\ fileTable[fileId].userId = userId
     /\ fileTable[fileId].isDeleted
  THEN "ok" ELSE "DeletedFileNotFound"

restoreFileResult(fileId, userId) == restoreFileResultIn(files, fileId, userId)

\* A variant that clears the flag and keeps the timestamp.
restoredFile_KeepsDeletedAt(row) == [row EXCEPT !.isDeleted = FALSE]

\* prisma.file.update: the restore.
restoredFile(row) == [row EXCEPT !.isDeleted = FALSE, !.deletedAt = NULL]

\* The table File after restoreFile returns or throws, from the table given.
restoreFileWritesIn(fileTable, fileId, userId) ==
  IF restoreFileResultIn(fileTable, fileId, userId) # "ok"
  THEN fileTable
  ELSE [fileTable EXCEPT ![fileId] = restoredFile(fileTable[fileId])]

restoreFileWrites(fileId, userId) == restoreFileWritesIn(files, fileId, userId)

restoreFile(fileId, userId) ==
  /\ files' = restoreFileWrites(fileId, userId)
  /\ IF restoreFileResult(fileId, userId) # "ok"
     THEN UNCHANGED last
     ELSE last' = Call("restoreFile", userId, fileId)

\* FileController.restoreFile: POST /:fileId/restore
RestoreFile ==
  \E userId \in Users, fileId \in 1..MaxFiles :
    /\ restoreFile(fileId, userId)
    /\ UNCHANGED <<defaultLimitMb, inFlight, versions, folders, nextFileId, nextVersionId,
                   nextFolderId, clock>>

\* prisma.file.findMany({ where: { userId, isDeleted: true } }) over the
\* table File given.
getRecycleBinIn(fileTable, userId) ==
  {id \in DOMAIN fileTable :
     fileTable[id].userId = userId /\ fileTable[id].isDeleted}

getRecycleBin(userId) == getRecycleBinIn(files, userId)

\* getUserFiles(userId) with includeDeleted false and no folderId, over the
\* table File given.
getUserFilesIn(fileTable, userId) ==
  {id \in DOMAIN fileTable :
     fileTable[id].userId = userId /\ ~fileTable[id].isDeleted}

getUserFiles(userId) == getUserFilesIn(files, userId)

\* ---- findDuplicates
\* File.contentHash is a nullable column added after the table was created:
\* <<>> is its NULL.
NoContentHash == <<>>

\* A row written before the column contentHash existed.
LegacyFile ==
  [userId |-> "u1", folderId |-> NULL, name |-> <<"a">>,
   originalName |-> <<"a">>, size |-> ByteLength(<<"x">>),
   mimeType |-> "text/plain", content |-> <<"x">>,
   contentHash |-> NoContentHash, isDeleted |-> FALSE, deletedAt |-> NULL,
   createdAt |-> 0]

\* prisma.file.findMany({ where: { userId, isDeleted: false,
\* contentHash: { not: null } }, orderBy: { createdAt: 'asc' } }): the ids
\* in S in the order of createdAt.
RECURSIVE orderByCreatedAt(_)
orderByCreatedAt(S) ==
  IF S = {} THEN <<>>
  ELSE LET first == CHOOSE id \in S :
                      \A other \in S : files[id].createdAt <= files[other].createdAt
       IN <<first>> \o orderByCreatedAt(S \ {first})

\* The keys of the Map hashGroups, in the order they were first set.
RECURSIVE hashGroupKeys(_, _)
hashGroupKeys(found, seen) ==
  IF found = <<>> THEN <<>>
  ELSE LET hash == files[Head(found)].contentHash IN
       IF hash = NoContentHash \/ hash \in seen
       THEN hashGroupKeys(Tail(found), seen)
       ELSE <<hash>> \o hashGroupKeys(Tail(found), seen \cup {hash})

\* hashGroups.get(hash): the files pushed under the key, in order.
hashGroup(found, hash) ==
  LET sameHash(id) == files[id].contentHash = hash IN SelectSeq(found, sameHash)

RECURSIVE sumSizes(_)
sumSizes(group) ==
  IF group = <<>> THEN 0 ELSE files[Head(group)].size + sumSizes(Tail(group))

\* A variant that spares the last file of the group.
groupWastedSpace_SparesLast(group) ==
  sumSizes(SubSeq(group, 1, Len(group) - 1))

\* group.files.slice(1).reduce((sum, f) => sum + f.size, 0)
groupWastedSpace(group) == sumSizes(Tail(group))

RECURSIVE sumWasted(_)
sumWasted(groups) ==
  IF groups = <<>> THEN 0
  ELSE Head(groups).totalWastedSpace + sumWasted(Tail(groups))

findDuplicates(userId) ==
  LET found == orderByCreatedAt(
                 {id \in DOMAIN files :
                    /\ files[id].userId = userId
                    /\ ~files[id].isDeleted
                    /\ files[id].contentHash # NoContentHash})
      keys == hashGroupKeys(found, {})
      hasDuplicates(hash) == Len(hashGroup(found, hash)) > 1
      duplicateKeys == SelectSeq(keys, hasDuplicates)
      duplicatesWithPaths ==
        [i \in 1..Len(duplicateKeys) |->
           LET group == hashGroup(found, duplicateKeys[i]) IN
           [hash |-> duplicateKeys[i], count |-> Len(group), files |-> group,
            totalWastedSpace |-> groupWastedSpace(group)]]
  IN [duplicateGroups |-> duplicatesWithPaths,
      totalGroups |-> Len(duplicatesWithPaths),
      totalWastedSpace |-> sumWasted(duplicatesWithPaths)]

\* ----------------------------------------------------------- FolderService
\* The unique index Folder_userId_name_parentId_key.  The store compares the
\* three columns as SQL does: a NULL parentId is equal to no other value,
\* NULL included, so two root folders never collide.
uniqueIndexViolated(userId, name, parentId) ==
  /\ parentId # NULL
  /\ \E f \in DOMAIN folders :
       /\ folders[f].userId = userId
       /\ folders[f].name = name
       /\ folders[f].parentId = parentId

\* A variant whose parent lookup leaves the userId condition out.
createFolderResult_AnyOwner(userId, name, parentId) ==
  IF trim(name) = <<>> THEN "FolderNameRequired"
  ELSE IF parentId # NULL /\ parentId \notin DOMAIN folders
  THEN "ParentFolderNotFound"
  ELSE IF uniqueIndexViolated(userId, trim(name), parentId)
  THEN "FolderNameExists"
  ELSE "ok"

createFolderResult(userId, name, parentId) ==
  IF trim(name) = <<>> THEN "FolderNameRequired"
  ELSE IF parentId # NULL
          /\ ~(parentId \in DOMAIN folders /\ folders[parentId].userId = userId)
  THEN "ParentFolderNotFound"
  ELSE IF uniqueIndexViolated(userId, trim(name), parentId)
  THEN "FolderNameExists"
  ELSE "ok"

\* A variant that inserts the row whatever the checks say.
createFolderWrites_InsertsFirst(userId, name, parentId) ==
  folders @@
    (nextFolderId :> [userId |-> userId, name |-> trim(name),
                      parentId |-> parentId, isDeleted |-> FALSE,
                      deletedAt |-> NULL])

\* The table Folder after createFolder returns or throws.
createFolderWrites(userId, name, parentId) ==
  IF createFolderResult(userId, name, parentId) # "ok"
  THEN folders
  ELSE folders @@
         (nextFolderId :> [userId |-> userId, name |-> trim(name),
                           parentId |-> parentId, isDeleted |-> FALSE,
                           deletedAt |-> NULL])

createFolder(userId, name, parentId) ==
  /\ folders' = createFolderWrites(userId, name, parentId)
  /\ IF createFolderResult(userId, name, parentId) # "ok"
     THEN UNCHANGED <<nextFolderId, last>>
     ELSE /\ nextFolderId <= MaxFolders
          /\ nextFolderId' = nextFolderId + 1
          /\ last' = Call("createFolder", userId, nextFolderId)

\* FileController.createFolder: POST /folders
CreateFolderOf(names) ==
  \E userId \in Users, name \in names, parentId \in 0..MaxFolders :
    /\ createFolder(userId, name, parentId)
    /\ UNCHANGED <<defaultLimitMb, inFlight, files, versions, nextFileId, nextVersionId, clock>>

CreateFolder == CreateFolderOf(FolderNames)

\* A variant that stops at the children of the root.
collectSubtree_ChildrenOnly(allFolders, rootId) ==
  {rootId} \cup {f \in allFolders : folders[f].parentId = rootId}

\* collectSubtree over the loaded rows allFolders (a set of folder ids).
RECURSIVE collectSubtree(_, _)
collectSubtree(allFolders, rootId) ==
  LET children == {f \in allFolders : folders[f].parentId = rootId}
  IN {rootId} \cup UNION {collectSubtree(allFolders, child) : child \in children}

\* A variant whose lookup leaves the isDeleted condition out.
deleteFolderResult_AnyState(userId, folderId) ==
  IF folderId \in DOMAIN folders /\ folders[folderId].userId = userId
  THEN "ok" ELSE "FolderNotFound"

\* The two new Date() of deleteFolder are read one after the other, around a
\* write to the store: the second may read a later time (filesAt <= foldersAt).
deleteFolderResult(userId, folderId) ==
  IF folderId \in DOMAIN folders /\ folders[folderId].userId = userId
     /\ ~folders[folderId].isDeleted
  THEN "ok" ELSE "FolderNotFound"

\* The tables File and Folder after deleteFolder returns or throws.
deleteFolderWrites(userId, folderId, filesAt, foldersAt) ==
  IF deleteFolderResult(userId, folderId) # "ok"
  THEN [files |-> files, folders |-> folders]
  ELSE LET allFolders == {f \in DOMAIN folders :
                            folders[f].userId = userId /\ ~folders[f].isDeleted}
           subtreeIds == collectSubtree(allFolders, folderId)
       IN [files |-> [id \in DOMAIN files |->
                        IF /\ files[id].userId = userId
                           /\ files[id].folderId \in subtreeIds
                           /\ ~files[id].isDeleted
                        THEN softDeletedFile(files[id], filesAt)
                        ELSE files[id]],
           folders |-> [f \in DOMAIN folders |->
                          IF folders[f].userId = userId /\ f \in subtreeIds
                          THEN [folders[f] EXCEPT !.isDeleted = TRUE,
                                                  !.deletedAt = foldersAt]
                          ELSE folders[f]]]

deleteFolder(userId, folderId) ==
  \E foldersAt \in {clock, IF clock < MaxClock THEN clock + 1 ELSE clock} :
    LET writes == deleteFolderWrites(userId, folderId, clock, foldersAt) IN
    /\ files' = writes.files
    /\ folders' = writes.folders
    /\ IF deleteFolderResult(userId, folderId) # "ok"
       THEN UNCHANGED <<clock, last>>
       ELSE /\ clock' = foldersAt
            /\ last' = Call("deleteFolder", userId, folderId)

\* FileController.deleteFolder
DeleteFolder ==
  \E userId \in Users, folderId \in 1..MaxFolders :
    /\ deleteFolder(userId, folderId)
    /\ UNCHANGED <<defaultLimitMb, inFlight, versions, nextFileId, nextVersionId, nextFolderId>>

restoreFolderResult(folderId, userId) ==
  IF folderId \in DOMAIN folders /\ folders[folderId].userId = userId
     /\ folders[folderId].isDeleted
  THEN "ok" ELSE "FolderNotInRecycleBin"

\* A variant that loads the user's non-deleted folders only.
restoreFolderAllFolders_LiveOnly(userId) ==
  {f \in DOMAIN folders : folders[f].userId = userId /\ ~folders[f].isDeleted}

\* restoreFolder's allFolders: prisma.folder.findMany({ where: { userId } }),
\* the deleted folders included.
restoreFolderAllFolders(userId) ==
  {f \in DOMAIN folders : folders[f].userId = userId}

\* The tables File and Folder after restoreFolder returns or throws.
restoreFolderWrites(folderId, userId) ==
  IF restoreFolderResult(folderId, userId) # "ok"
  THEN [files |-> files, folders |-> folders]
  ELSE LET allFolders == restoreFolderAllFolders(userId)
           subtreeIds == collectSubtree(allFolders, folderId)
       IN [files |-> [id \in DOMAIN files |->
                        IF /\ files[id].userId = userId
                           /\ files[id].folderId \in subtreeIds
                           /\ files[id].isDeleted
                        THEN restoredFile(files[id])
                        ELSE files[id]],
           folders |-> [f \in DOMAIN folders |->
                          IF folders[f].userId = userId /\ f \in subtreeIds
                          THEN [folders[f] EXCEPT !.isDeleted = FALSE,
                                                  !.deletedAt = NULL]
                          ELSE folders[f]]]

restoreFolder(folderId, userId) ==
  LET writes == restoreFolderWrites(folderId, userId) IN
  /\ files' = writes.files
  /\ folders' = writes.folders
  /\ IF restoreFolderResult(folderId, userId) # "ok"
     THEN UNCHANGED last
     ELSE last' = Call("restoreFolder", userId, folderId)

\* FileController.restoreFolder
RestoreFolder ==
  \E userId \in Users, folderId \in 1..MaxFolders :
    /\ restoreFolder(folderId, userId)
    /\ UNCHANGED <<defaultLimitMb, inFlight, versions, nextFileId, nextVersionId,
                   nextFolderId, clock>>

\* ---- deleteFolder and restoreFolder, one await at a time
\* The locals of a suspended call: op is "deleteFolder" or "restoreFolder";
\* stage is "found" after the lookup, "loaded" after allFolders was read and
\* subtreeIds computed, "filesUpdated" after prisma.file.updateMany; changed
\* is the set of File rows that updateMany altered.
FolderRequest(op, userId, folderId) ==
  [op |-> op, userId |-> userId, folderId |-> folderId, stage |-> "found",
   subtreeIds |-> {}, changed |-> {}]

FolderOps == {"deleteFolder", "restoreFolder"}

\* prisma.folder.findFirst of either call: it throws when no row matches.
folderFound(op, userId, folderId) ==
  /\ IF op = "deleteFolder"
     THEN deleteFolderResult(userId, folderId) = "ok"
     ELSE restoreFolderResult(folderId, userId) = "ok"
  /\ Cardinality(inFlight) < MaxInFlight
  /\ FolderRequest(op, userId, folderId) \notin inFlight
  /\ inFlight' = inFlight \cup {FolderRequest(op, userId, folderId)}
  /\ UNCHANGED <<files, folders, last>>

\* prisma.folder.findMany and collectSubtree over the rows it returned.
folderLoaded(req) ==
  /\ req.stage = "found"
  /\ LET allFolders ==
           IF req.op = "deleteFolder"
           THEN {f \in DOMAIN folders :
                   folders[f].userId = req.userId /\ ~folders[f].isDeleted}
           ELSE restoreFolderAllFolders(req.userId)
     IN inFlight' = (inFlight \ {req}) \cup
          {[req EXCEPT !.stage = "loaded",
                       !.subtreeIds = collectSubtree(allFolders, req.folderId)]}
  /\ UNCHANGED <<files, folders, last>>

\* prisma.file.updateMany over the files of the subtree.
folderFilesUpdated(req) ==
  /\ req.stage = "loaded"
  /\ LET deleting == req.op = "deleteFolder"
         matched == {id \in DOMAIN files :
                       /\ files[id].userId = req.userId
                       /\ files[id].folderId \in req.subtreeIds
                       /\ files[id].isDeleted = ~deleting}
     IN /\ files' = [id \in DOMAIN files |->
                       IF id \notin matched THEN files[id]
                       ELSE IF deleting THEN softDeletedFile(files[id], clock)
                       ELSE restoredFile(files[id])]
        /\ inFlight' = (inFlight \ {req}) \cup
             {[req EXCEPT !.stage = "filesUpdated", !.changed = matched]}
  /\ UNCHANGED <<folders, last>>

\* prisma.folder.updateMany over the folders of the subtree; the call
\* returns.
folderFoldersUpdated(req) ==
  /\ req.stage = "filesUpdated"
  /\ folders' = [f \in DOMAIN folders |->
                   IF folders[f].userId = req.userId /\ f \in req.subtreeIds
                   THEN IF req.op = "deleteFolder"
                        THEN [folders[f] EXCEPT !.isDeleted = TRUE,
                                                !.deletedAt = clock]
                        ELSE [folders[f] EXCEPT !.isDeleted = FALSE,
                                                !.deletedAt = NULL]
                   ELSE folders[f]]
  /\ inFlight' = inFlight \ {req}
  /\ last' = Call(req.op, req.userId, req.folderId)
  /\ UNCHANGED files

\* The call ends at an await without running the statements after it: the
\* process stops, or the store rejects the next statement.  Nothing undoes
\* the writes already made: no statement of either call runs in a
\* transaction.  The interruption is recorded when files had been altered.
folderInterrupted(req) ==
  /\ inFlight' = inFlight \ {req}
  /\ IF req.stage = "filesUpdated" /\ req.changed # {}
     THEN last' = Call(IF req.op = "deleteFolder"
                       THEN "deleteFolderInterrupted"
                       ELSE "restoreFolderInterrupted",
                       req.userId, req.folderId)
     ELSE UNCHANGED last
  /\ UNCHANGED <<files, folders>>

FolderFound ==
  \E op \in FolderOps, userId \in Users, folderId \in 1..MaxFolders :
    /\ folderFound(op, userId, folderId)
    /\ UNCHANGED <<defaultLimitMb, versions, nextFileId, nextVersionId,
                   nextFolderId, clock>>

FolderLoaded ==
  \E req \in inFlight :
    /\ folderLoaded(req)
    /\ UNCHANGED <<defaultLimitMb, versions, nextFileId, nextVersionId,
                   nextFolderId, clock>>

FolderFilesUpdated ==
  \E req \in inFlight :
    /\ folderFilesUpdated(req)
    /\ UNCHANGED <<defaultLimitMb, versions, nextFileId, nextVersionId,
                   nextFolderId, clock>>

FolderFoldersUpdated ==
  \E req \in inFlight :
    /\ folderFoldersUpdated(req)
    /\ UNCHANGED <<defaultLimitMb, versions, nextFileId, nextVersionId,
                   nextFolderId, clock>>

FolderInterrupted ==
  \E req \in inFlight :
    /\ folderInterrupted(req)
    /\ UNCHANGED <<defaultLimitMb, versions, nextFileId, nextVersionId,
                   nextFolderId, clock>>

\* The ids of S in the order of orderBy: { createdAt: 'asc' }: folder ids are
\* handed out in the order of creation.
RECURSIVE orderFoldersByCreatedAt(_)
orderFoldersByCreatedAt(S) ==
  IF S = {} THEN <<>>
  ELSE LET first == CHOOSE f \in S : \A g \in S : f <= g
       IN <<first>> \o orderFoldersByCreatedAt(S \ {first})

\* A variant that returns as a root every node whose parent was not loaded.
getFolderTree_OrphansAsRoots(userId) ==
  LET loaded == {f \in DOMAIN folders :
                   folders[f].userId = userId /\ ~folders[f].isDeleted}
  IN [roots |-> orderFoldersByCreatedAt(
                  {f \in loaded : folders[f].parentId \notin loaded}),
      map |-> [f \in loaded |->
                 [id |-> f, name |-> folders[f].name,
                  parentId |-> folders[f].parentId,
                  fileCount |-> Cardinality({id \in DOMAIN files :
                                               /\ files[id].userId = userId
                                               /\ ~files[id].isDeleted
                                               /\ files[id].folderId = f}),
                  children |-> orderFoldersByCreatedAt(
                    {c \in loaded : folders[c].parentId = f})]]]

\* getFolderTree: roots is the list returned; map holds the nodes, each with
\* its fileCount and the list of its children (the nodes nested in it).  A
\* node whose parentId names no loaded row is pushed nowhere.
getFolderTree(userId) ==
  LET loaded == {f \in DOMAIN folders :
                   folders[f].userId = userId /\ ~folders[f].isDeleted}
      countMap == [f \in loaded |->
                     Cardinality({id \in DOMAIN files :
                                    /\ files[id].userId = userId
                                    /\ ~files[id].isDeleted
                                    /\ files[id].folderId = f})]
  IN [roots |-> orderFoldersByCreatedAt(
                  {f \in loaded : folders[f].parentId = NULL}),
      map |-> [f \in loaded |->
                 [id |-> f, name |-> folders[f].name,
                  parentId |-> folders[f].parentId,
                  fileCount |-> countMap[f],
                  children |-> orderFoldersByCreatedAt(
                    {c \in loaded : folders[c].parentId = f})]]]

listDeletedFolders(userId) ==
  {f \in DOMAIN folders : folders[f].userId = userId /\ folders[f].isDeleted}

Next ==
  \/ Tick
  \/ UploadFile
  \/ UploadVersion
  \/ SoftDeleteFile
  \/ PermanentDeleteFile
  \/ RestoreFile
  \/ CreateFolder
  \/ DeleteFolder
  \/ RestoreFolder

Spec == Init /\ [][Next]_vars

\* ================================================================ properties
\* The vocabulary of the specification, stated over the tables.
Active(id) == id \in DOMAIN files /\ ~files[id].isDeleted
SoftDeleted(id) == id \in DOMAIN files /\ files[id].isDeleted

filesOfUser(u) == {id \in DOMAIN files : files[id].userId = u}

\* usage(user): the sizes of all the user's files, deleted or not, plus the
\* sizes of all versions of those files; over the tables given.
usageIn(fileTable, versionTable, u) ==
  SumOver([id \in DOMAIN fileTable |->
             IF fileTable[id].userId = u THEN fileTable[id].size ELSE 0],
          DOMAIN fileTable)
  + SumOver([v \in DOMAIN versionTable |->
               IF /\ versionTable[v].fileId \in DOMAIN fileTable
                  /\ fileTable[versionTable[v].fileId].userId = u
               THEN versionTable[v].size ELSE 0],
            DOMAIN versionTable)

usage(u) == usageIn(files, versions, u)

limit(u) == resolveUserLimitBytes(u)
Bounded(u) == limit(u) # NULL

FolderArgs == 0..MaxFolders
FileArgs == 1..MaxFiles

versionsOfIn(versionTable, fileId) ==
  {v \in DOMAIN versionTable : versionTable[v].fileId = fileId}

\* The file lifecycle alone: no folder is ever created.
NextFiles ==
  \/ Tick
  \/ UploadFile
  \/ UploadVersion
  \/ SoftDeleteFile
  \/ PermanentDeleteFile
  \/ RestoreFile

SpecFiles == Init /\ [][NextFiles]_vars

\* The folder tree alone: no file is ever uploaded.
NextTree ==
  \/ Tick
  \/ CreateFolder
  \/ DeleteFolder
  \/ RestoreFolder

SpecTree == Init /\ [][NextTree]_vars

\* The folder tree with files placed in it, within one instant of the clock:
\* at most MaxFilesInTree files, each an upload of FileA and never replaced by
\* a new version, and folders named D.
InitLate == Init /\ clock = MaxClock

UploadFileA == nextFileId <= MaxFilesInTree /\ UploadFileOf({FileA})

CreateFolderD == CreateFolderOf(FolderNamesD)

NextFolders ==
  \/ CreateFolderD
  \/ DeleteFolder
  \/ RestoreFolder
  \/ UploadFileA
  \/ SoftDeleteFile
  \/ RestoreFile

SpecFolders == InitLate /\ [][NextFolders]_vars

\* Purging files in a folder tree, within one instant of the clock: at most
\* MaxFilesInTree files, uploads and versions of FileA, and at most
\* MaxFoldersInPurge folders named D.
CreateFolderInPurge == nextFolderId <= MaxFoldersInPurge /\ CreateFolderD

UploadVersionA ==
  \E userId \in Users, fileId \in 1..MaxFiles :
    /\ uploadFile(userId, FileA, TRUE, fileId, NULL)
    /\ UNCHANGED <<defaultLimitMb, inFlight, folders, nextFolderId, clock>>

NextPurge ==
  \/ CreateFolderInPurge
  \/ DeleteFolder
  \/ RestoreFolder
  \/ UploadFileA
  \/ UploadVersionA
  \/ SoftDeleteFile
  \/ RestoreFile
  \/ PermanentDeleteFile

SpecPurge == InitLate /\ [][NextPurge]_vars

\* Duplicate detection over a table that may hold one row written before the
\* column contentHash existed, within one instant of the clock.
InitDuplicates ==
  /\ defaultLimitMb \in DefaultLimitMbChoices
  /\ files \in {<< >>, 1 :> LegacyFile}
  /\ nextFileId = Cardinality(DOMAIN files) + 1
  /\ versions = << >>
  /\ folders = << >>
  /\ nextVersionId = 1
  /\ nextFolderId = 1
  /\ clock = MaxClock
  /\ inFlight = {}
  /\ last = Call("none", "-", NULL)

NextDuplicates ==
  \/ UploadFile
  \/ UploadVersion
  \/ SoftDeleteFile
  \/ RestoreFile

SpecDuplicates == InitDuplicates /\ [][NextDuplicates]_vars

\* Uploads taken one await at a time, at most MaxInFlight of them suspended
\* at once, within one instant of the clock and without folders.
NextInFlight ==
  \/ UploadChecked
  \/ UploadCounted
  \/ UploadArchived
  \/ UploadReplaced
  \/ UploadCreated
  \/ UploadInterrupted

SpecInFlight == InitLate /\ [][NextInFlight]_vars

\* Folder deletes and restores over files placed in folders, while the clock
\* runs: at most MaxFilesInTree files and MaxFoldersInPurge folders.
NextStamps ==
  \/ Tick
  \/ CreateFolderInPurge
  \/ UploadFileA
  \/ DeleteFolder
  \/ RestoreFolder

SpecStamps == Init /\ [][NextStamps]_vars

\* Folder deletes and restores running one await at a time among folder
\* creates and uploads, within one instant of the clock: at most
\* MaxFilesInTree files and MaxFoldersInPurge folders.
NextFolderInFlight ==
  \/ CreateFolderInPurge
  \/ UploadFileA
  \/ FolderFound
  \/ FolderLoaded
  \/ FolderFilesUpdated
  \/ FolderFoldersUpdated
  \/ FolderInterrupted

SpecFolderInFlight == InitLate /\ [][NextFolderInFlight]_vars

\* Uploads and permanent deletes running one await at a time, within one
\* instant of the clock: at most MaxFilesInTree files.
NextPurgeInFlight ==
  \/ UploadCheckedA
  \/ UploadCounted
  \/ UploadArchived
  \/ UploadReplaced
  \/ UploadCreatedInTree
  \/ DeleteFound
  \/ DeleteVersionsPurged
  \/ DeleteFilePurged

SpecPurgeInFlight == InitLate /\ [][NextPurgeInFlight]_vars

\* ----------------------------------------------------------------------- C1
QuotaExceededOutcome(u, file, isVersion, parentFileId, folderId) ==
  LET writes == uploadFileWrites(u, file, isVersion, parentFileId, folderId) IN
  /\ uploadFileResult(u, file, isVersion, parentFileId, folderId)
       = "StorageLimitExceeded"
  /\ writes.files = files
  /\ writes.versions = versions
  /\ \A id \in filesOfUser(u) :
       /\ id \in DOMAIN writes.files
       /\ writes.files[id].content = files[id].content
       /\ versionsOfIn(writes.versions, id) = versionsOf(id)
  /\ usageIn(writes.files, writes.versions, u) = usage(u)

\* C1: for a user with a bounded limit and an upload of N > 0 bytes, new file
\* or new version, with usage(user) + N > limit(user) when the quota is
\* checked, the upload fails with the quota error and the user's files,
\* versions, version counts, contents and usage are as they were before.
C1_QuotaExceeded ==
  \A u \in Users, file \in UploadFiles :
    (Bounded(u) /\ file.size > 0 /\ usage(u) + file.size > limit(u)) =>
      /\ \A folderId \in FolderArgs :
           QuotaExceededOutcome(u, file, FALSE, NULL, folderId)
      /\ \A fileId \in filesOfUser(u) :
           QuotaExceededOutcome(u, file, TRUE, fileId, NULL)

\* A user exactly at the limit, holding a file with a version, for whom both
\* a new upload and a new version of one block are over the limit.
C1_Witness ==
  \E u \in Users, fileId \in DOMAIN files :
    /\ Bounded(u)
    /\ files[fileId].userId = u
    /\ versionsOf(fileId) # {}
    /\ usage(u) = limit(u)
    /\ uploadFileResult(u, FileA, FALSE, NULL, NULL) = "StorageLimitExceeded"
    /\ uploadFileResult(u, FileA, TRUE, fileId, NULL) = "StorageLimitExceeded"

\* ----------------------------------------------------------------------- C2
versionNumbers(fileId) == {versions[v].version : v \in versionsOf(fileId)}

VersionsNumbered(fileId) ==
  /\ versionNumbers(fileId) = 1..Cardinality(versionsOf(fileId))
  /\ \A v1, v2 \in versionsOf(fileId) :
       v1 < v2 => versions[v1].version < versions[v2].version

VersionArchived(u, file, fileId) ==
  LET writes == uploadFileWrites(u, file, TRUE, fileId, NULL)
      before == versionsOf(fileId)
      after == versionsOfIn(writes.versions, fileId)
  IN /\ Cardinality(after) = Cardinality(before) + 1
     /\ before \subseteq after
     /\ \A v \in DOMAIN versions :
          v \in DOMAIN writes.versions /\ writes.versions[v] = versions[v]
     /\ \A v \in after \ before :
          /\ writes.versions[v].version = Cardinality(before) + 1
          /\ \A old \in before : old < v
          /\ writes.versions[v].content = files[fileId].content
          /\ writes.versions[v].size = files[fileId].size
          /\ writes.versions[v].mimeType = files[fileId].mimeType

\* C2: a successful version upload on a file raises its version count by
\* exactly one; the new version is numbered (previous count + 1), so the
\* file's versions are numbered exactly 1..k, increasing in creation order;
\* and the archived content, size and mimeType are those the file had
\* immediately before the upload.
C2_VersionArchived ==
  /\ \A fileId \in DOMAIN files : VersionsNumbered(fileId)
  /\ \A u \in Users, file \in UploadFiles, fileId \in FileArgs :
       uploadFileResult(u, file, TRUE, fileId, NULL) = "ok" =>
         VersionArchived(u, file, fileId)

\* A file that has just received its second version, the two archived
\* payloads being different.
C2_Witness ==
  /\ last.op = "uploadVersion"
  /\ last.id \in DOMAIN files
  /\ \E v1, v2 \in versionsOf(last.id) :
       /\ versions[v1].version = 1
       /\ versions[v2].version = 2
       /\ versions[v1].content # versions[v2].content

\* ----------------------------------------------------------------------- C3
\* f is root or lies below root through non-deleted folders of the user.
RECURSIVE InLiveSubtree(_, _, _)
InLiveSubtree(u, f, root) ==
  \/ f = root
  \/ /\ f \in DOMAIN folders
     /\ folders[f].userId = u
     /\ ~folders[f].isDeleted
     /\ folders[f].parentId # NULL
     /\ InLiveSubtree(u, folders[f].parentId, root)

Subtree(u, root) == {f \in DOMAIN folders : InLiveSubtree(u, f, root)}

LiveFilesIn(u, S) ==
  {id \in DOMAIN files :
     files[id].userId = u /\ ~files[id].isDeleted /\ files[id].folderId \in S}

SubtreeDeleted(u, folderId) ==
  LET writes == deleteFolderWrites(u, folderId, clock, clock)
      S == Subtree(u, folderId)
      M == LiveFilesIn(u, S)
  IN /\ DOMAIN writes.folders = DOMAIN folders
     /\ DOMAIN writes.files = DOMAIN files
     /\ {f \in DOMAIN folders :
           ~folders[f].isDeleted /\ writes.folders[f].isDeleted} = S
     /\ {id \in DOMAIN files :
           ~files[id].isDeleted /\ writes.files[id].isDeleted} = M
     /\ \A f \in DOMAIN folders \ S : writes.folders[f] = folders[f]
     /\ \A id \in DOMAIN files \ M : writes.files[id] = files[id]

\* C3: deleteFolder on a non-deleted folder of the caller soft-deletes exactly
\* the folder and its descendant folders (N + 1 folders) and exactly the live
\* files of the caller in them (M files); every other file and folder, of
\* this user or another, is left as it was.
C3_DeleteSubtree ==
  \A u \in Users, folderId \in 1..MaxFolders :
    deleteFolderResult(u, folderId) = "ok" => SubtreeDeleted(u, folderId)

\* A root folder has just been deleted together with a grandchild and a file
\* in it, while a file outside the subtree is still live.
C3_Witness ==
  /\ last.op = "deleteFolder"
  /\ last.id \in DOMAIN folders
  /\ folders[last.id].parentId = NULL
  /\ \E child, grandchild \in DOMAIN folders :
       /\ folders[child].parentId = last.id
       /\ folders[grandchild].parentId = child
       /\ folders[child].isDeleted
       /\ folders[grandchild].isDeleted
       /\ \E id \in DOMAIN files :
            files[id].folderId = grandchild /\ files[id].isDeleted
  /\ \E id \in DOMAIN files : files[id].folderId = NULL /\ ~files[id].isDeleted

\* ----------------------------------------------------------------------- C6
\* C6: in every reachable state every file and every folder has isDeleted
\* true exactly when its deletedAt is set.
C6_DeletedPaired ==
  /\ \A id \in DOMAIN files :
       files[id].isDeleted <=> files[id].deletedAt # NULL
  /\ \A f \in DOMAIN folders :
       folders[f].isDeleted <=> folders[f].deletedAt # NULL

\* A folder has just been restored with a file in it, next to a file and a
\* folder that are still deleted.
C6_Witness ==
  /\ last.op = "restoreFolder"
  /\ last.id \in DOMAIN folders
  /\ ~folders[last.id].isDeleted
  /\ \E id \in DOMAIN files :
       files[id].folderId = last.id /\ ~files[id].isDeleted
  /\ \E id \in DOMAIN files : files[id].isDeleted
  /\ \E f \in DOMAIN folders : folders[f].isDeleted

\* ----------------------------------------------------------------------- C4
\* An id that was handed out and whose row is no longer in the table.
GoneFile(id) == id < nextFileId /\ id \notin DOMAIN files
GoneVersion(v) == v < nextVersionId /\ v \notin DOMAIN versions

LookupsFail(id) ==
  \A u \in Users :
    /\ getFileById(id, u) = "FileNotFound"
    /\ downloadFile(id, u).result = "FileNotFound"
    /\ restoreFileResult(id, u) = "DeletedFileNotFound"
    /\ getFileVersions(id, u).result = "FileNotFound"
    /\ deleteFileResult(id, u) = "FileNotFound"
    /\ \A file \in UploadFiles :
         uploadFileResult(u, file, TRUE, id, NULL) = "ParentFileNotFound"

PermanentlyDeleted(u, fileId) ==
  LET writes == deleteFileWrites(fileId, u, TRUE, clock) IN
  /\ deleteFileResult(fileId, u) = "ok"
  /\ DOMAIN writes.files = DOMAIN files \ {fileId}
  /\ DOMAIN writes.versions = DOMAIN versions \ versionsOf(fileId)
  /\ \A id \in DOMAIN writes.files : writes.files[id] = files[id]
  /\ \A v \in DOMAIN writes.versions : writes.versions[v] = versions[v]
  /\ downloadFileFrom(writes.files, fileId, u).result = "FileNotFound"
  /\ \A v \in versionsOf(fileId) :
       downloadVersionFrom(writes.files, writes.versions, v, u).result
         = "VersionNotFound"

PermanentDeleteRemoves ==
  /\ \A u \in Users, fileId \in FileArgs :
       ((Active(fileId) \/ SoftDeleted(fileId)) /\ files[fileId].userId = u)
         => PermanentlyDeleted(u, fileId)
  /\ \A v \in DOMAIN versions : versions[v].fileId \in DOMAIN files
  /\ \A id \in FileArgs : GoneFile(id) => LookupsFail(id)
  /\ \A v \in 1..MaxVersions, u \in Users :
       GoneVersion(v) => downloadVersion(v, u).result = "VersionNotFound"

StaysGone ==
  /\ \A id \in FileArgs : GoneFile(id) => GoneFile(id)'
  /\ \A v \in 1..MaxVersions : GoneVersion(v) => GoneVersion(v)'

\* C4: permanent delete of a file of the caller succeeds whether the file is
\* Active or SoftDeleted and removes the File row and all its FileVersion
\* rows; from then on, whatever is called, the file id and its version ids
\* stay absent and every lookup, download, restore, version listing and
\* version upload by them fails.
C4_PermanentDelete == []PermanentDeleteRemoves /\ [][StaysGone]_vars

\* The first file uploaded, placed in a folder, has just been permanently
\* deleted and the two versions it had went with it; the folder is deleted.
C4_Witness ==
  /\ last.op = "deleteFilePermanent"
  /\ last.id = 1
  /\ GoneFile(1)
  /\ nextVersionId = 3
  /\ versions = << >>
  /\ \E f \in DOMAIN folders : folders[f].isDeleted

\* ----------------------------------------------------------------------- C5
SameButDeleteState(before, after) ==
  /\ DOMAIN after = DOMAIN before
  /\ \A column \in DOMAIN before \ {"isDeleted", "deletedAt"} :
       after[column] = before[column]
  /\ after.size = before.size
  /\ after.content = before.content
  /\ after.contentHash = before.contentHash
  /\ after.folderId = before.folderId

OnlyRowChanged(fileId, before, after) ==
  /\ DOMAIN after = DOMAIN before
  /\ \A id \in DOMAIN before \ {fileId} : after[id] = before[id]
  /\ SameButDeleteState(before[fileId], after[fileId])

SoftDeleteThenRestore(u, fileId) ==
  LET deleted == deleteFileWrites(fileId, u, FALSE, clock)
      restored == restoreFileWritesIn(deleted.files, fileId, u)
  IN /\ deleteFileResult(fileId, u) = "ok"
     /\ deleted.versions = versions
     /\ OnlyRowChanged(fileId, files, deleted.files)
     /\ deleted.files[fileId].isDeleted
     /\ deleted.files[fileId].deletedAt = clock
     /\ restoreFileResultIn(deleted.files, fileId, u) = "ok"
     /\ restored = files
     /\ ~restored[fileId].isDeleted

\* C5: soft-deleting an Active file and restoring it gives back an Active
\* file with the size, content, digest, folder and versions it had; a soft
\* delete and a restore each change nothing but isDeleted and deletedAt of
\* the one row.
C5_SoftDeleteRestore ==
  \A u \in Users, fileId \in FileArgs :
    /\ (Active(fileId) /\ files[fileId].userId = u)
         => SoftDeleteThenRestore(u, fileId)
    /\ deleteFileResult(fileId, u) = "ok"
         => /\ deleteFileWrites(fileId, u, FALSE, clock).versions = versions
            /\ OnlyRowChanged(fileId, files,
                              deleteFileWrites(fileId, u, FALSE, clock).files)
    /\ restoreFileResult(fileId, u) = "ok"
         => /\ OnlyRowChanged(fileId, files, restoreFileWrites(fileId, u))
            /\ ~restoreFileWrites(fileId, u)[fileId].isDeleted
            /\ restoreFileWrites(fileId, u)[fileId].deletedAt = NULL

\* A file that sits in a folder and has an archived version has just been
\* restored and is Active.
C5_Witness ==
  /\ last.op = "restoreFile"
  /\ Active(last.id)
  /\ files[last.id].folderId # NULL
  /\ versionsOf(last.id) # {}

\* ----------------------------------------------------------------------- C7
\* C7: every File row's size is the byte length of its content, after every
\* create and every version replacement, and every FileVersion row's size is
\* the byte length of its content.
C7_SizeIsLength ==
  /\ \A id \in DOMAIN files : files[id].size = ByteLength(files[id].content)
  /\ \A v \in DOMAIN versions :
       versions[v].size = ByteLength(versions[v].content)

\* A file created with one block has just been replaced by a payload of two
\* blocks, the one block being archived.
C7_Witness ==
  /\ last.op = "uploadVersion"
  /\ last.id \in DOMAIN files
  /\ files[last.id].size = 2 * MB_IN_BYTES
  /\ \E v \in versionsOf(last.id) : versions[v].size = MB_IN_BYTES

\* ----------------------------------------------------------------------- C8
Served(download, buffer, mimetype) ==
  /\ download.result = "ok"
  /\ download.content = buffer
  /\ download.size = ByteLength(buffer)
  /\ download.mimeType = mimetype

UploadRoundTrip(u, file, folderId) ==
  LET writes == uploadFileWrites(u, file, FALSE, NULL, folderId) IN
  Served(downloadFileFrom(writes.files, nextFileId, u), file.buffer, file.mimetype)

VersionRoundTrip(u, file, fileId) ==
  LET writes == uploadFileWrites(u, file, TRUE, fileId, NULL)
      archived == downloadVersionFrom(writes.files, writes.versions,
                                      nextVersionId, u)
  IN /\ Served(downloadFileFrom(writes.files, fileId, u),
               file.buffer, file.mimetype)
     /\ archived.result = "ok"
     /\ archived.content = files[fileId].content
     /\ archived.size = files[fileId].size
     /\ archived.mimeType = files[fileId].mimeType

\* What the owner downloads is the same after any call that is neither a
\* version upload on the file nor its permanent delete.
DownloadStable(u, fileId) ==
  LET now == downloadFile(fileId, u) IN
  /\ \A caller \in Users, file \in UploadFiles :
       /\ downloadFileFrom(uploadFileWrites(caller, file, FALSE, NULL, NULL).files,
                           fileId, u) = now
       /\ \A other \in FileArgs \ {fileId} :
            downloadFileFrom(uploadFileWrites(caller, file, TRUE, other, NULL).files,
                             fileId, u) = now
  /\ \A caller \in Users, other \in FileArgs :
       /\ downloadFileFrom(deleteFileWrites(other, caller, FALSE, clock).files,
                           fileId, u) = now
       /\ other # fileId =>
            downloadFileFrom(deleteFileWrites(other, caller, TRUE, clock).files,
                             fileId, u) = now
       /\ downloadFileFrom(restoreFileWrites(other, caller), fileId, u) = now

\* C8: after a successful upload of bytes B with MIME type T the owner's
\* download yields B, the length of B and T, and keeps doing so until a
\* version is uploaded; after a version upload of B2 the download yields B2
\* and the download of the version just archived yields the bytes, size and
\* type the file had.
C8_RoundTrip ==
  /\ \A u \in Users, file \in UploadFiles, folderId \in FolderArgs :
       uploadFileResult(u, file, FALSE, NULL, folderId) = "ok"
         => UploadRoundTrip(u, file, folderId)
  /\ \A u \in Users, file \in UploadFiles, fileId \in FileArgs :
       uploadFileResult(u, file, TRUE, fileId, NULL) = "ok"
         => VersionRoundTrip(u, file, fileId)
  /\ \A u \in Users : \A fileId \in filesOfUser(u) : DownloadStable(u, fileId)

\* A file uploaded as FileA has just been replaced by FileB: the download
\* serves FileB and the archived version serves FileA.
C8_Witness ==
  /\ last.op = "uploadVersion"
  /\ Served(downloadFile(last.id, last.userId), FileB.buffer, FileB.mimetype)
  /\ \E v \in versionsOf(last.id) :
       /\ downloadVersion(v, last.userId).result = "ok"
       /\ downloadVersion(v, last.userId).content = FileA.buffer
       /\ downloadVersion(v, last.userId).mimeType = FileA.mimetype

\* ----------------------------------------------------------------------- C9
Range(seq) == {seq[i] : i \in DOMAIN seq}

\* The user's Active files that carry a digest.
Candidates(u) ==
  {id \in DOMAIN files :
     /\ files[id].userId = u
     /\ Active(id)
     /\ files[id].contentHash # NoContentHash}

\* The classes of the candidates under "same digest" with two members or more.
DuplicateSets(u) ==
  {G \in {{id \in Candidates(u) : files[id].contentHash = files[member].contentHash} :
            member \in Candidates(u)} :
     Cardinality(G) >= 2}

EarliestCreated(G) ==
  CHOOSE id \in G : \A other \in G : files[id].createdAt <= files[other].createdAt

Wasted(G) ==
  SumOver([id \in G |-> files[id].size], G \ {EarliestCreated(G)})

DuplicatesReported(u) ==
  LET report == findDuplicates(u)
      groups == report.duplicateGroups
  IN /\ {Range(groups[i].files) : i \in DOMAIN groups} = DuplicateSets(u)
     /\ Len(groups) = Cardinality(DuplicateSets(u))
     /\ report.totalGroups = Cardinality(DuplicateSets(u))
     /\ \A i \in DOMAIN groups :
          LET G == Range(groups[i].files) IN
          /\ Len(groups[i].files) = Cardinality(G)
          /\ groups[i].count = Cardinality(G)
          /\ \A id \in G : files[id].contentHash = groups[i].hash
          /\ groups[i].totalWastedSpace = Wasted(G)
          /\ \A id \in G : files[id].userId = u /\ ~files[id].isDeleted
     /\ report.totalWastedSpace
          = SumOver([G \in DuplicateSets(u) |-> Wasted(G)], DuplicateSets(u))

\* C9: findDuplicates(userId) reports exactly the sets of the user's Active
\* files that carry a digest, share it and are two or more; the wasted space
\* of a group is the sum of the sizes of its members but the earliest
\* created, the total is the sum over the groups; soft-deleted files and
\* files of other users are in no group.
C9_DuplicateGroups == \A u \in Users : DuplicatesReported(u)

\* One group of two files of different sizes is reported to a user, while a
\* file of another user with the same digest is left out.
C9_Witness ==
  \E u \in Users :
    LET report == findDuplicates(u) IN
    /\ report.totalGroups = 1
    /\ report.duplicateGroups[1].count = 2
    /\ files[report.duplicateGroups[1].files[1]].size
         # files[report.duplicateGroups[1].files[2]].size
    /\ report.totalWastedSpace = files[report.duplicateGroups[1].files[2]].size
    /\ \E id \in DOMAIN files :
         /\ files[id].userId # u
         /\ files[id].contentHash = report.duplicateGroups[1].hash

\* ---------------------------------------------------------------------- C10
LiveSibling(u, name, parentId) ==
  \E f \in DOMAIN folders :
    /\ folders[f].userId = u
    /\ ~folders[f].isDeleted
    /\ folders[f].name = trim(name)
    /\ folders[f].parentId = parentId

ParentUsable(u, parentId) ==
  parentId = NULL \/ (parentId \in DOMAIN folders /\ folders[parentId].userId = u)

\* C10: createFolder fails with the duplicate-name error whenever a
\* non-deleted folder of the same user with the same trimmed name exists
\* under the same parent, the root (parentId NULL) included.
C10_DuplicateName ==
  \A u \in Users, name \in FolderNames, parentId \in FolderArgs :
    (ParentUsable(u, parentId) /\ LiveSibling(u, name, parentId))
      => createFolderResult(u, name, parentId) = "FolderNameExists"

\* ---------------------------------------------------------------------- C11
UploadErrors ==
  {"FileBufferNotAvailable", "ParentFileNotFound", "StorageLimitExceeded",
   "FolderNotFound"}

UploadErrorWritesNothing(u, file, isVersion, parentFileId, folderId) ==
  uploadFileResult(u, file, isVersion, parentFileId, folderId) # "ok" =>
    /\ uploadFileResult(u, file, isVersion, parentFileId, folderId) \in UploadErrors
    /\ uploadFileWrites(u, file, isVersion, parentFileId, folderId)
         = [files |-> files, versions |-> versions]

FileErrorsWriteNothing ==
  \A u \in Users :
    /\ \A file \in UploadFiles \cup {FileNoBuffer} :
         /\ \A folderId \in FolderArgs :
              UploadErrorWritesNothing(u, file, FALSE, NULL, folderId)
         /\ \A fileId \in FileArgs :
              UploadErrorWritesNothing(u, file, TRUE, fileId, NULL)
    /\ \A fileId \in FileArgs :
         /\ deleteFileResult(fileId, u) # "ok" =>
              \A permanent \in BOOLEAN :
                deleteFileWrites(fileId, u, permanent, clock)
                  = [files |-> files, versions |-> versions]
         /\ restoreFileResult(fileId, u) # "ok" =>
              restoreFileWrites(fileId, u) = files

FolderErrorsWriteNothing ==
  \A u \in Users :
    /\ \A name \in FolderNames, parentId \in FolderArgs :
         createFolderResult(u, name, parentId) # "ok" =>
           createFolderWrites(u, name, parentId) = folders
    /\ \A folderId \in 1..MaxFolders :
         /\ deleteFolderResult(u, folderId) # "ok" =>
              deleteFolderWrites(u, folderId, clock, clock)
                = [files |-> files, folders |-> folders]
         /\ restoreFolderResult(folderId, u) # "ok" =>
              restoreFolderWrites(folderId, u)
                = [files |-> files, folders |-> folders]

\* C11: a create, version upload, soft delete, restore, permanent delete,
\* folder create, folder delete or folder restore that ends with a
\* validation, not-found, quota or duplicate-name error leaves the tables
\* File, FileVersion and Folder exactly as they were.
C11_ErrorsWriteNothing == FileErrorsWriteNothing /\ FolderErrorsWriteNothing

\* A state in which, for one user, an upload is over the quota, a folder
\* name is taken, a restore names an Active file and a folder delete names a
\* folder already deleted.
C11_Witness ==
  \E u \in Users :
    /\ uploadFileResult(u, FileA, FALSE, NULL, NULL) = "StorageLimitExceeded"
    /\ \E parentId \in DOMAIN folders :
         createFolderResult(u, <<"D">>, parentId) = "FolderNameExists"
    /\ \E fileId \in DOMAIN files :
         /\ files[fileId].userId = u
         /\ restoreFileResult(fileId, u) = "DeletedFileNotFound"
    /\ \E folderId \in DOMAIN folders :
         /\ folders[folderId].userId = u
         /\ deleteFolderResult(u, folderId) = "FolderNotFound"

\* ---------------------------------------------------------------------- C12
\* The version row v holds what its File row still holds, and is the newest
\* version of that file.
ArchivedButNotReplaced(v) ==
  /\ v \in DOMAIN versions
  /\ versions[v].fileId \in DOMAIN files
  /\ versions[v].version = Cardinality(versionsOf(versions[v].fileId))
  /\ versions[v].content = files[versions[v].fileId].content
  /\ versions[v].size = files[versions[v].fileId].size
  /\ versions[v].mimeType = files[versions[v].fileId].mimeType

\* C12: a version upload is atomic: no state is reached, by an upload cut
\* short between its writes included, in which no upload is running and the
\* version row written by the last upload archives the content its File row
\* still holds.
C12_VersionUploadAtomic ==
  ~(/\ inFlight = {}
    /\ last.op = "uploadVersionInterrupted"
    /\ ArchivedButNotReplaced(last.id))

\* ---------------------------------------------------------------------- C13
\* C13: two uploads of one user that run concurrently both pass the quota
\* check and both persist, so that usage(user) > limit(user) is reached:
\* every upload admitted, the suspended ones included, fitted under the
\* limit with the usage it read.
C13_ConcurrentOvershoot ==
  \A req \in inFlight :
    Bounded(req.userId) =>
      req.usageSeen + req.file.size <= limit(req.userId)

\* No upload is running, the user's two files have both been created, each
\* of them alone fits under the limit, and the usage is over the limit.
C13_Witness ==
  \E u \in Users :
    /\ Bounded(u)
    /\ inFlight = {}
    /\ last.op = "uploadFile"
    /\ last.userId = u
    /\ versions = << >>
    /\ Cardinality(filesOfUser(u)) = 2
    /\ \A id \in filesOfUser(u) : files[id].size <= limit(u)
    /\ \A id \in filesOfUser(u) : usage(u) - files[id].size <= limit(u)
    /\ usage(u) > limit(u)

\* ---------------------------------------------------------------------- C14
\* Ids that no row of the store carries.
NoSuchFile == MaxFiles + 1
NoSuchVersion == MaxVersions + 1
NoSuchFolder == MaxFolders + 1

\* Every file operation of user a on the file fileId answers as it answers
\* for an id that does not exist, and writes nothing.
ForeignFileHidden(a, fileId) ==
  /\ downloadFile(fileId, a) = downloadFile(NoSuchFile, a)
  /\ downloadFile(fileId, a).result = "FileNotFound"
  /\ getFileById(fileId, a) = getFileById(NoSuchFile, a)
  /\ getFileById(fileId, a) = "FileNotFound"
  /\ getFileVersions(fileId, a) = getFileVersions(NoSuchFile, a)
  /\ getFileVersions(fileId, a).result = "FileNotFound"
  /\ deleteFileResult(fileId, a) = deleteFileResult(NoSuchFile, a)
  /\ deleteFileResult(fileId, a) = "FileNotFound"
  /\ \A permanent \in BOOLEAN :
       deleteFileWrites(fileId, a, permanent, clock)
         = [files |-> files, versions |-> versions]
  /\ restoreFileResult(fileId, a) = restoreFileResult(NoSuchFile, a)
  /\ restoreFileResult(fileId, a) = "DeletedFileNotFound"
  /\ restoreFileWrites(fileId, a) = files
  /\ \A file \in UploadFiles :
       /\ uploadFileResult(a, file, TRUE, fileId, NULL)
            = uploadFileResult(a, file, TRUE, NoSuchFile, NULL)
       /\ uploadFileResult(a, file, TRUE, fileId, NULL) = "ParentFileNotFound"
       /\ uploadFileWrites(a, file, TRUE, fileId, NULL)
            = [files |-> files, versions |-> versions]
  /\ fileId \notin getUserFiles(a) \cup getRecycleBin(a)

ForeignVersionHidden(a, versionId) ==
  /\ downloadVersion(versionId, a) = downloadVersion(NoSuchVersion, a)
  /\ downloadVersion(versionId, a).result = "VersionNotFound"
  /\ downloadVersion(versionId, a).content = <<>>

ForeignFolderHidden(a, folderId) ==
  /\ \A file \in UploadFiles :
       /\ uploadFileResult(a, file, FALSE, NULL, folderId)
            = uploadFileResult(a, file, FALSE, NULL, NoSuchFolder)
       /\ uploadFileResult(a, file, FALSE, NULL, folderId) # "ok"
       /\ uploadFileWrites(a, file, FALSE, NULL, folderId)
            = [files |-> files, versions |-> versions]
  /\ \A name \in FolderNames :
       /\ createFolderResult(a, name, folderId)
            = createFolderResult(a, name, NoSuchFolder)
       /\ createFolderResult(a, name, folderId) # "ok"
       /\ createFolderWrites(a, name, folderId) = folders
  /\ deleteFolderResult(a, folderId) = deleteFolderResult(a, NoSuchFolder)
  /\ deleteFolderResult(a, folderId) = "FolderNotFound"
  /\ deleteFolderWrites(a, folderId, clock, clock)
       = [files |-> files, folders |-> folders]
  /\ restoreFolderResult(folderId, a) = restoreFolderResult(NoSuchFolder, a)
  /\ restoreFolderResult(folderId, a) = "FolderNotInRecycleBin"
  /\ restoreFolderWrites(folderId, a)
       = [files |-> files, folders |-> folders]
  /\ folderId \notin listDeletedFolders(a)

\* C14: a file, version or folder operation that user a calls with an id of
\* another user's row returns the error it returns for an id that does not
\* exist, writes nothing to File, FileVersion or Folder, and returns none of
\* the other user's content.
C14_CrossUserIsolation ==
  \A a \in Users :
    /\ \A fileId \in DOMAIN files :
         files[fileId].userId # a => ForeignFileHidden(a, fileId)
    /\ \A versionId \in DOMAIN versions :
         (/\ versions[versionId].fileId \in DOMAIN files
          /\ files[versions[versionId].fileId].userId # a)
           => ForeignVersionHidden(a, versionId)
    /\ \A folderId \in DOMAIN folders :
         folders[folderId].userId # a => ForeignFolderHidden(a, folderId)

\* User b owns a soft-deleted folder, a file and an archived version of it,
\* and the last call that succeeded was one of another user.
C14_Witness ==
  \E a \in Users, b \in Users :
    /\ a # b
    /\ last.userId = a
    /\ \E folderId \in DOMAIN folders :
         folders[folderId].userId = b /\ folders[folderId].isDeleted
    /\ \E versionId \in DOMAIN versions :
         /\ versions[versionId].fileId \in DOMAIN files
         /\ files[versions[versionId].fileId].userId = b
         /\ versions[versionId].content # <<>>

\* ---------------------------------------------------------------------- C15
\* C15: a version upload fails with the parent-not-found error, adds no
\* FileVersion and leaves the File row alone, unless the parent id is that of
\* an Active file of the caller; a soft-deleted file is no parent.
C15_VersionNeedsActiveParent ==
  \A u \in Users, fileId \in FileArgs, file \in UploadFiles :
    ~(Active(fileId) /\ files[fileId].userId = u) =>
      /\ uploadFileResult(u, file, TRUE, fileId, NULL) = "ParentFileNotFound"
      /\ uploadFileWrites(u, file, TRUE, fileId, NULL)
           = [files |-> files, versions |-> versions]

\* ---------------------------------------------------------------------- C16
\* C16: a soft delete fails with the file-not-found error unless the id is
\* that of an Active file of the caller; soft-deleting a file that is
\* already soft-deleted fails and its deletedAt stays what it was.
C16_SoftDeleteNeedsActive ==
  \A u \in Users, fileId \in FileArgs :
    ~(Active(fileId) /\ files[fileId].userId = u) =>
      /\ deleteFileResult(fileId, u) = "FileNotFound"
      /\ deleteFileWrites(fileId, u, FALSE, clock).files = files

\* ---------------------------------------------------------------------- C17
\* The restore of fileId by u: refused, with nothing written, unless fileId
\* is a soft-deleted file of u; otherwise the row is Active again, listed
\* among u's files and gone from u's recycle bin.
RestoreOutcome(u, fileId) ==
  LET after == restoreFileWrites(fileId, u) IN
  IF SoftDeleted(fileId) /\ files[fileId].userId = u
  THEN /\ restoreFileResult(fileId, u) = "ok"
       /\ DOMAIN after = DOMAIN files
       /\ ~after[fileId].isDeleted
       /\ after[fileId].deletedAt = NULL
       /\ fileId \in getUserFilesIn(after, u)
       /\ fileId \notin getRecycleBinIn(after, u)
       /\ fileId \notin getUserFiles(u)
       /\ fileId \in getRecycleBin(u)
  ELSE /\ restoreFileResult(fileId, u) = "DeletedFileNotFound"
       /\ after = files

\* C17: a restore fails with the not-found error and changes nothing unless
\* the file is soft-deleted and owned by the caller (an Active file and a
\* permanently deleted one are refused); a restore that succeeds clears
\* isDeleted and deletedAt, and the file is then in the list of the user's
\* active files and not in the recycle bin.
C17_RestoreNeedsSoftDeleted ==
  /\ \A u \in Users, fileId \in FileArgs : RestoreOutcome(u, fileId)
  /\ last.op = "restoreFile" =>
       /\ last.id \in getUserFiles(last.userId)
       /\ last.id \notin getRecycleBin(last.userId)
       /\ files[last.id].deletedAt = NULL

\* A restore has just succeeded, restoring the same file again is refused,
\* and so is the restore of a file of the same user that was permanently
\* deleted.
C17_Witness ==
  /\ last.op = "restoreFile"
  /\ Active(last.id)
  /\ restoreFileResult(last.id, last.userId) = "DeletedFileNotFound"
  /\ \E id \in FileArgs :
       GoneFile(id) /\ restoreFileResult(id, last.userId) = "DeletedFileNotFound"

\* ---------------------------------------------------------------------- C18
\* f is root or a descendant of root among all the folders of u, deleted or
\* not.
RECURSIVE InSubtreeOfAll(_, _, _)
InSubtreeOfAll(u, f, root) ==
  \/ f = root
  \/ /\ f \in DOMAIN folders
     /\ folders[f].userId = u
     /\ folders[f].parentId # NULL
     /\ InSubtreeOfAll(u, folders[f].parentId, root)

ClosureOfAll(u, root) == {f \in DOMAIN folders : InSubtreeOfAll(u, f, root)}

\* The restore of folderId by u: refused, with nothing written, unless
\* folderId is a soft-deleted folder of u; otherwise no folder of the closure
\* and no file of u in a folder of the closure is deleted afterwards, and
\* nothing else is touched.
RestoreSubtreeOutcome(u, folderId) ==
  LET writes == restoreFolderWrites(folderId, u)
      S == ClosureOfAll(u, folderId)
      M == {id \in DOMAIN files :
              files[id].userId = u /\ files[id].folderId \in S}
  IN IF /\ folderId \in DOMAIN folders
        /\ folders[folderId].userId = u
        /\ folders[folderId].isDeleted
     THEN /\ restoreFolderResult(folderId, u) = "ok"
          /\ DOMAIN writes.folders = DOMAIN folders
          /\ DOMAIN writes.files = DOMAIN files
          /\ \A f \in S : /\ ~writes.folders[f].isDeleted
                          /\ writes.folders[f].deletedAt = NULL
          /\ \A id \in M : /\ ~writes.files[id].isDeleted
                           /\ writes.files[id].deletedAt = NULL
          /\ \A f \in DOMAIN folders \ S : writes.folders[f] = folders[f]
          /\ \A id \in DOMAIN files \ M : writes.files[id] = files[id]
     ELSE /\ restoreFolderResult(folderId, u) = "FolderNotInRecycleBin"
          /\ writes = [files |-> files, folders |-> folders]

\* C18: restoreFolder fails with the folder-not-found error unless the
\* folder exists, is owned by the caller and is soft-deleted; when it
\* succeeds, every folder of the descendant closure taken over all of the
\* user's folders, and every file in a folder of that closure, is non-deleted
\* afterwards, those deleted on their own before the subtree included.
C18_RestoreSubtree ==
  \A u \in Users, folderId \in 1..MaxFolders :
    RestoreSubtreeOutcome(u, folderId)

\* The last call deleted a root folder; a child folder of it and a file of
\* the same user in that child are soft-deleted too, and restoring the root
\* is accepted.
C18_Witness ==
  \E u \in Users, root \in DOMAIN folders, child \in DOMAIN folders :
    /\ last = Call("deleteFolder", u, root)
    /\ folders[root].isDeleted
    /\ folders[child].parentId = root
    /\ folders[child].isDeleted
    /\ \E id \in DOMAIN files :
         /\ files[id].userId = u
         /\ files[id].folderId = child
         /\ files[id].isDeleted
    /\ restoreFolderResult(root, u) = "ok"

\* ---------------------------------------------------------------------- C19
LiveFolderOf(u, folderId) ==
  /\ folderId \in DOMAIN folders
  /\ folders[folderId].userId = u
  /\ ~folders[folderId].isDeleted

DeleteSubtreeRefused(u, folderId) ==
  /\ deleteFolderResult(u, folderId) = "FolderNotFound"
  /\ deleteFolderWrites(u, folderId, clock, clock)
       = [files |-> files, folders |-> folders]

\* C19: deleteFolder fails with the folder-not-found error, and changes
\* nothing, when the folder does not exist, is not the caller's or is
\* soft-deleted already; so the same call made again right after a delete
\* that succeeded fails.
C19_DeleteSubtreeOnce ==
  /\ \A u \in Users, folderId \in 1..MaxFolders :
       IF LiveFolderOf(u, folderId)
       THEN deleteFolderResult(u, folderId) = "ok"
       ELSE DeleteSubtreeRefused(u, folderId)
  /\ last.op = "deleteFolder" => DeleteSubtreeRefused(last.userId, last.id)

\* The three refusals at once: a folder has just been deleted and the same
\* call again is refused, a folder of another user exists, and one folder id
\* names no row.
C19_Witness ==
  /\ last.op = "deleteFolder"
  /\ folders[last.id].isDeleted
  /\ deleteFolderResult(last.userId, last.id) = "FolderNotFound"
  /\ \E f \in DOMAIN folders : folders[f].userId # last.userId
  /\ \E f \in 1..MaxFolders : f \notin DOMAIN folders

\* ---------------------------------------------------------------------- C20
\* C20: createFolder with a parentId fails with the parent-not-found error
\* unless that id is a non-deleted folder of the caller; no folder is
\* created under a soft-deleted parent.
C20_ParentNotDeleted ==
  \A u \in Users, name \in FolderNames, parentId \in 1..MaxFolders :
    /\ trim(name) # <<>>
    /\ ~LiveFolderOf(u, parentId)
    => /\ createFolderResult(u, name, parentId) = "ParentFolderNotFound"
       /\ createFolderWrites(u, name, parentId) = folders

\* ---------------------------------------------------------------------- C21
DeletedSibling(u, name, parentId) ==
  \E f \in DOMAIN folders :
    /\ folders[f].userId = u
    /\ folders[f].isDeleted
    /\ folders[f].name = trim(name)
    /\ folders[f].parentId = parentId

\* C21: a folder name is taken only by the non-deleted folders of the same
\* user under the same parent: once the folder named X under P is
\* soft-deleted, and no live folder X is left under P, a create of X under P
\* succeeds.
C21_NameFreedByDelete ==
  \A u \in Users, name \in FolderNames, parentId \in FolderArgs :
    (/\ parentId = NULL \/ LiveFolderOf(u, parentId)
     /\ DeletedSibling(u, name, parentId)
     /\ ~LiveSibling(u, name, parentId))
      => createFolderResult(u, name, parentId) = "ok"

\* ---------------------------------------------------------------------- C22
\* The nodes of the forest at and below the node f.
RECURSIVE NodesUnder(_, _)
NodesUnder(tree, f) ==
  {f} \cup UNION {NodesUnder(tree, tree.map[f].children[i]) :
                    i \in DOMAIN tree.map[f].children}

NodesOf(tree) ==
  UNION {NodesUnder(tree, tree.roots[i]) : i \in DOMAIN tree.roots}

\* How many times f is listed in the forest: among the roots, and among the
\* children of the nodes of the forest.
Occurrences(tree, f) ==
  Cardinality({i \in DOMAIN tree.roots : tree.roots[i] = f})
  + SumOver([n \in NodesOf(tree) |->
               Cardinality({i \in DOMAIN tree.map[n].children :
                              tree.map[n].children[i] = f})],
            NodesOf(tree))

LiveFilesDirectlyIn(u, f) ==
  {id \in DOMAIN files :
     files[id].userId = u /\ ~files[id].isDeleted /\ files[id].folderId = f}

TreeSound(u) ==
  LET tree == getFolderTree(u) IN
  \A f \in NodesOf(tree) :
    /\ LiveFolderOf(u, f)
    /\ Occurrences(tree, f) = 1
    /\ tree.map[f].fileCount = Cardinality(LiveFilesDirectlyIn(u, f))
    /\ \A i \in DOMAIN tree.map[f].children :
         folders[tree.map[f].children[i]].parentId = f

TreeComplete(u) ==
  \A f \in DOMAIN folders :
    LiveFolderOf(u, f) => f \in NodesOf(getFolderTree(u))

\* C22: the folder tree of a user holds every non-deleted folder of the user
\* exactly once, as a root or under its parent, holds no soft-deleted folder
\* and no folder of another user, and gives for each node the number of
\* non-deleted files placed directly in it.
C22_TreeHoldsEveryLiveFolder ==
  \A u \in Users : TreeSound(u) /\ TreeComplete(u)

\* ---------------------------------------------------------------------- C23
\* A delete or restore of a subtree that was cut short has not altered files
\* and left the folders as they were.
SubtreeNotHalfDone ==
  /\ last.op = "deleteFolderInterrupted" => folders[last.id].isDeleted
  /\ last.op = "restoreFolderInterrupted" => ~folders[last.id].isDeleted

\* Right after a delete of a subtree has returned, the folder deleted holds
\* no Active file of the caller.
NoActiveFileAfterDelete ==
  last.op = "deleteFolder" =>
    \A id \in DOMAIN files :
      (files[id].userId = last.userId /\ files[id].folderId = last.id)
        => files[id].isDeleted

\* C23: the delete and the restore of a folder subtree are atomic, under
\* interruption and among concurrent calls: in no reachable state have the
\* files of the subtree changed their delete state and the folders not, and
\* once a delete has returned no Active file is in the folder deleted, an
\* upload into it that ran meanwhile notwithstanding.
C23_SubtreeAtomic == SubtreeNotHalfDone /\ NoActiveFileAfterDelete

\* ---------------------------------------------------------------------- C24
\* C24: after any sequence of uploads and version uploads, the files of a
\* group reported by the duplicate scan all hold the same content now: a
\* file whose content a version upload replaced is grouped by what it holds.
C24_GroupsShareContent ==
  \A u \in Users :
    LET groups == findDuplicates(u).duplicateGroups IN
    \A i \in DOMAIN groups :
      \A a \in Range(groups[i].files), b \in Range(groups[i].files) :
        files[a].content = files[b].content

SameUsage(fileTable, versionTable) ==
  \A u \in Users : usageIn(fileTable, versionTable, u) = usage(u)

\* Soft delete, restore and the two subtree operations keep every usage.
DeleteStateKeepsUsage ==
  \A u \in Users :
    /\ \A fileId \in FileArgs :
         /\ SameUsage(deleteFileWrites(fileId, u, FALSE, clock).files,
                      deleteFileWrites(fileId, u, FALSE, clock).versions)
         /\ SameUsage(restoreFileWrites(fileId, u), versions)
    /\ \A folderId \in 1..MaxFolders :
         /\ SameUsage(deleteFolderWrites(u, folderId, clock, clock).files,
                      versions)
         /\ SameUsage(restoreFolderWrites(folderId, u).files, versions)

\* A version upload of N bytes adds N to the caller's usage; a permanent
\* delete takes the file's size and the sizes of its versions off it.
UsageSteps ==
  \A u \in Users, fileId \in FileArgs :
    /\ \A file \in UploadFiles :
         uploadFileResult(u, file, TRUE, fileId, NULL) = "ok" =>
           LET writes == uploadFileWrites(u, file, TRUE, fileId, NULL) IN
           \A other \in Users :
             usageIn(writes.files, writes.versions, other)
               = usage(other) + (IF other = u THEN file.size ELSE 0)
    /\ deleteFileResult(fileId, u) = "ok" =>
         LET writes == deleteFileWrites(fileId, u, TRUE, clock) IN
         \A other \in Users :
           usageIn(writes.files, writes.versions, other)
             = usage(other)
               - (IF other = u
                  THEN files[fileId].size
                       + SumOver([v \in versionsOf(fileId) |-> versions[v].size],
                                 versionsOf(fileId))
                  ELSE 0)

\* C26: the usage of a user is the sum of the sizes of all the user's files,
\* deleted or not, and of all the versions of those files; so soft delete,
\* restore, folder delete and folder restore keep it, a version upload of N
\* bytes raises it by N, and a permanent delete lowers it by the size of the
\* file and of all its versions.
C26_UsageLedger ==
  /\ \A u \in Users : getUserUsageBytes(u) = usage(u)
  /\ DeleteStateKeepsUsage
  /\ UsageSteps

\* A folder has just been deleted and with it a file that has an archived
\* version: the caller's usage still counts both.
C26_Witness ==
  /\ last.op = "deleteFolder"
  /\ \E id \in DOMAIN files :
       /\ files[id].userId = last.userId
       /\ files[id].folderId = last.id
       /\ files[id].isDeleted
       /\ versionsOf(id) # {}
       /\ getUserUsageBytes(last.userId) >= files[id].size + files[id].size

\* ---------------------------------------------------------------------- C27
\* C27: a create whose bytes are empty or unreadable is refused as an invalid
\* file, before the quota check and before any row is written; no File of
\* size 0 comes to exist.
C27_EmptyUploadRefused ==
  /\ \A u \in Users, folderId \in FolderArgs, file \in {FileEmpty, FileNoBuffer} :
       /\ uploadFileResult(u, file, FALSE, NULL, folderId)
            = "FileBufferNotAvailable"
       /\ uploadFileWrites(u, file, FALSE, NULL, folderId)
            = [files |-> files, versions |-> versions]
  /\ \A id \in DOMAIN files : files[id].size > 0

\* ---------------------------------------------------------------------- C28
\* The columns of File a version upload does not write.
KeptByVersionUpload ==
  {"userId", "folderId", "contentHash", "isDeleted", "deletedAt", "createdAt"}

VersionUploadFrame(u, file, fileId) ==
  LET writes == uploadFileWrites(u, file, TRUE, fileId, NULL)
      before == files[fileId]
      after == writes.files[fileId]
  IN /\ DOMAIN writes.files = DOMAIN files
     /\ \A id \in DOMAIN files \ {fileId} : writes.files[id] = files[id]
     /\ DOMAIN after = DOMAIN before
     /\ \A column \in KeptByVersionUpload : after[column] = before[column]
     /\ after.name = sanitizeSegment(file.originalname)
     /\ after.originalName = file.originalname
     /\ after.size = file.size
     /\ after.mimeType = file.mimetype
     /\ after.content = file.buffer
     /\ DOMAIN writes.versions = DOMAIN versions \cup {nextVersionId}
     /\ \A v \in DOMAIN versions : writes.versions[v] = versions[v]

VersionsOwned ==
  \A v \in DOMAIN versions : versions[v].fileId \in DOMAIN files

\* A step keeps every FileVersion as it is, but for those of a file that the
\* step deletes permanently.
VersionsKept ==
  \A v \in DOMAIN versions :
    \/ v \in DOMAIN versions' /\ versions'[v] = versions[v]
    \/ /\ v \notin DOMAIN versions'
       /\ last'.op = "deleteFilePermanent"
       /\ last'.id = versions[v].fileId
       /\ last'.id \notin DOMAIN files'

\* C29: a FileVersion never changes once created (fileId, version, content,
\* size, mimeType) and is removed only by the permanent delete of its File;
\* soft delete, restore, later version uploads and the folder subtree
\* operations leave it alone.
C29_VersionsImmutable == []VersionsOwned /\ [][VersionsKept]_vars

\* Every version the bound allows was made; a file has just been deleted
\* for good, a version of a soft-deleted file is still there, and a folder
\* is soft-deleted.
C29_Witness ==
  /\ last.op = "deleteFilePermanent"
  /\ nextVersionId = MaxVersions + 1
  /\ \E v \in DOMAIN versions : SoftDeleted(versions[v].fileId)
  /\ \E folderId \in DOMAIN folders : folders[folderId].isDeleted

\* ---------------------------------------------------------------------- C30
\* C30: in every reachable state, those reached by two version uploads to
\* one file running at once included, the versions of a file carry numbers
\* that differ from one another: they are 1..k for a file of k versions.
C30_VersionNumbersUnique ==
  \A fileId \in DOMAIN files :
    /\ \A v1 \in versionsOf(fileId), v2 \in versionsOf(fileId) :
         v1 # v2 => versions[v1].version # versions[v2].version
    /\ \A v \in versionsOf(fileId) :
         versions[v].version \in 1..Cardinality(versionsOf(fileId))

\* ---------------------------------------------------------------------- C31
\* Following parentId from f ends at a root within fuel steps, through rows
\* that exist and belong to owner.
RECURSIVE ChainEndsAtRoot(_, _, _)
ChainEndsAtRoot(f, owner, fuel) ==
  IF f = NULL THEN TRUE
  ELSE IF fuel = 0 \/ f \notin DOMAIN folders THEN FALSE
  ELSE /\ folders[f].userId = owner
       /\ ChainEndsAtRoot(folders[f].parentId, owner, fuel - 1)

\* C31: the parent links of the folders form a forest in every reachable
\* state: the chain of parentId from any folder ends at a root, in no more
\* steps than there are folders (so it visits no folder twice), and every
\* folder on it has the owner of the folder it starts from.
C31_FolderForest ==
  \A f \in DOMAIN folders :
    ChainEndsAtRoot(f, folders[f].userId, Cardinality(DOMAIN folders))

\* A folder has just been created under a root folder of its owner, beside
\* a folder of another user.
C31_Witness ==
  /\ last.op = "createFolder"
  /\ folders[last.id].parentId # NULL
  /\ folders[folders[last.id].parentId].parentId = NULL
  /\ \E f \in DOMAIN folders : folders[f].userId # last.userId

\* ---------------------------------------------------------------------- C32
\* f is a non-deleted folder of u whose parent is not among the non-deleted
\* folders of u.
Orphaned(u, f) ==
  /\ LiveFolderOf(u, f)
  /\ folders[f].parentId # NULL
  /\ ~LiveFolderOf(u, folders[f].parentId)

\* C32: in the folder tree of a user, a non-deleted folder whose parent is
\* not among the non-deleted folders loaded is left out: it is no root, it
\* is nowhere in the forest, and neither is any folder below it.
C32_OrphansLeftOut ==
  \A u \in Users, f \in DOMAIN folders :
    Orphaned(u, f) =>
      LET tree == getFolderTree(u) IN
      /\ \A i \in DOMAIN tree.roots : tree.roots[i] # f
      /\ \A g \in ClosureOfAll(u, f) : g \notin NodesOf(tree)

\* A non-deleted folder under a soft-deleted parent, with a non-deleted
\* folder of its own below it.
C32_Witness ==
  \E u \in Users, f \in DOMAIN folders, g \in DOMAIN folders :
    /\ Orphaned(u, f)
    /\ LiveFolderOf(u, g)
    /\ folders[g].parentId = f
    /\ g \in DOMAIN getFolderTree(u).map

\* ---------------------------------------------------------------------- C33
\* The timestamps written by a deleteFolder whose two new Date() read filesAt
\* and foldersAt: those of the rows the call soft-deletes.
StampsOfDelete(u, folderId, filesAt, foldersAt) ==
  LET writes == deleteFolderWrites(u, folderId, filesAt, foldersAt) IN
  {writes.files[id].deletedAt :
     id \in {i \in DOMAIN files :
               ~files[i].isDeleted /\ writes.files[i].isDeleted}}
  \cup
  {writes.folders[f].deletedAt :
     f \in {g \in DOMAIN folders :
              ~folders[g].isDeleted /\ writes.folders[g].isDeleted}}

\* C33: after a deleteFolder that succeeds, every file and every folder the
\* call soft-deleted carries one and the same deletedAt.
C33_OneDeletionStamp ==
  /\ \A u \in Users, folderId \in 1..MaxFolders :
       \A filesAt \in clock..MaxClock, foldersAt \in clock..MaxClock :
         (filesAt <= foldersAt /\ deleteFolderResult(u, folderId) = "ok")
           => Cardinality(StampsOfDelete(u, folderId, filesAt, foldersAt)) = 1
  /\ last.op = "deleteFolder" =>
       \A id \in DOMAIN files :
         (files[id].userId = last.userId /\ files[id].folderId = last.id)
           => files[id].deletedAt = folders[last.id].deletedAt

\* ---------------------------------------------------------------------- C34
\* The two client calls hand back null/false, never a rejection.
ClientNeverRejects(collaborator) ==
  /\ \A id \in DOMAIN files :
       /\ ~processFile(id, files[id].userId, files[id].content,
                       files[id].originalName, collaborator).raised
       /\ ~removeVector(id, collaborator).raised
       /\ (~ensureAvailable(collaborator)
           \/ collaborator.reply \in AxiosRejections) =>
            /\ processFile(id, files[id].userId, files[id].content,
                           files[id].originalName, collaborator).value = "null"
            /\ removeVector(id, collaborator).value = "false"

\* What processFile and removeVector hand back over every condition of the
\* collaborator.
processFileCalls(fileId, userId, fileBuffer, filename) ==
  { processFile(fileId, userId, fileBuffer, filename, collaborator) :
      collaborator \in CollaboratorStates }

removeVectorCalls(fileId) ==
  { removeVector(fileId, collaborator) : collaborator \in CollaboratorStates }

\* A primary operation that ended with result and then awaited one of calls
\* ends with result.
SameOutcome(result, calls) ==
  \A call \in calls : afterCollaboratorCall(result, call) = result

C35_UsageWithinLimit ==
  \A u \in Users : Bounded(u) => usage(u) <= limit(u)

\* A version upload has just filled its user's quota to the last byte, in a
\* store that holds a folder.
C35_Witness ==
  /\ last.op = "uploadVersion"
  /\ Bounded(last.userId)
  /\ usage(last.userId) = limit(last.userId)
  /\ versionsOf(last.id) # {}
  /\ folders # << >>

\* ---------------------------------------------------------------------- C36
\* C36: no file that is not deleted lies in a soft-deleted folder, whether
\* it came there by an upload with a folderId, by the restore of the single
\* file, or by a folder subtree operation.
C36_NoActiveFileInDeletedFolder ==
  \A id \in DOMAIN files :
    (Active(id) /\ files[id].folderId # NULL) =>
      ~folders[files[id].folderId].isDeleted

\* ---------------------------------------------------------------------- C37
\* The versions of fileId are numbered 1..k, each number once.
NumberedInOrder(fileTable, versionTable, fileId) ==
  LET mine == versionsOfIn(versionTable, fileId) IN
  /\ {versionTable[v].version : v \in mine} = 1..Cardinality(mine)
  /\ \A v1, v2 \in mine :
       versionTable[v1].version = versionTable[v2].version => v1 = v2

\* The payloads of fileId in the order of their numbers, the current one
\* last.
HistoryIn(fileTable, versionTable, fileId) ==
  LET mine == versionsOfIn(versionTable, fileId)
      k == Cardinality(mine)
  IN [i \in 1..(k + 1) |->
        IF i <= k
        THEN versionTable[CHOOSE v \in mine : versionTable[v].version = i].content
        ELSE fileTable[fileId].content]

\* A step leaves the history of a file as it is or, being a version upload
\* to it, appends the payload uploaded; the history of a new file is the
\* payload it was created with.
HistoryStep ==
  /\ \A f \in DOMAIN files \cap DOMAIN files' :
       /\ NumberedInOrder(files', versions', f)
       /\ \/ HistoryIn(files', versions', f) = HistoryIn(files, versions, f)
          \/ /\ last'.op = "uploadVersion"
             /\ last'.id = f
             /\ \E file \in UploadFiles :
                  HistoryIn(files', versions', f)
                    = Append(HistoryIn(files, versions, f), file.buffer)
  /\ \A f \in DOMAIN files' \ DOMAIN files :
       /\ last'.op = "uploadFile"
       /\ last'.id = f
       /\ \E file \in UploadFiles :
            HistoryIn(files', versions', f) = <<file.buffer>>

\* C37: when the uploads of a file run one at a time, after its create with
\* P0 and k version uploads with P1..Pk (and no permanent delete) the version
\* numbered i holds P(i-1) and the current content is Pk: each step keeps
\* the list of payloads or appends the one uploaded, whatever soft deletes
\* and restores come in between.
C37_HistoryPreserved ==
  /\ [](\A f \in DOMAIN files : NumberedInOrder(files, versions, f))
  /\ [][HistoryStep]_vars

\* A file restored from the recycle bin whose history is three payloads
\* long, the first and the second being different.
C37_Witness ==
  /\ last.op = "restoreFile"
  /\ last.id \in DOMAIN files
  /\ NumberedInOrder(files, versions, last.id)
  /\ Len(HistoryIn(files, versions, last.id)) = 3
  /\ HistoryIn(files, versions, last.id)[1]
       # HistoryIn(files, versions, last.id)[2]

\* ---------------------------------------------------------------------- C38
\* C38: in every state, those reached by a version upload running between
\* the steps of a permanent delete of the same file included, every
\* FileVersion refers to a File row that exists, and every File to a user
\* that exists.
C38_NoOrphans ==
  /\ \A v \in DOMAIN versions :
       \E f \in DOMAIN files : versions[v].fileId = f
  /\ \A f \in DOMAIN files : \E u \in Users : files[f].userId = u

\* The permanent delete of a file has ended while a version upload to the
\* same file stands between its insert and its update: the row it inserted
\* as number 1, after an earlier version had been made, went with the file.
C38_Witness ==
  /\ last.op = "deleteFilePermanent"
  /\ last.id \notin DOMAIN files
  /\ \E req \in inFlight :
       /\ req.stage = "archived"
       /\ req.parentFileId = last.id
       /\ req.versionId \notin DOMAIN versions
       /\ req.versionNumber = 1
       /\ nextVersionId > 2

\* ---------------------------------------------------------------------- C39
\* The entries the service may list: with or without a file_id, of a file
\* that exists or not, with or without a user_id; and null.
SearchEntries ==
  {SearchEntry(file_id, user_id) :
     file_id \in 0..MaxFiles, user_id \in {""} \cup Users}
  \cup {NullEntry}

SearchResults ==
  {<<>>} \cup {<<e>> : e \in SearchEntries}
  \cup {<<e1, e2>> : e1 \in SearchEntries, e2 \in SearchEntries}

SearchResponses ==
  {NullResponse, SearchResponse(TRUE, FALSE, <<>>)}
  \cup {SearchResponse(TRUE, TRUE, results) : results \in SearchResults}
  \cup {SearchResponse(FALSE, TRUE, <<e>>) : e \in SearchEntries}

\* An answer that lists every file id, as the user's own.
ListsEveryFile(userId) ==
  SearchResponse(TRUE, TRUE, [id \in 1..MaxFiles |-> SearchEntry(id, userId)])

OwnAndActive(userId, hit) ==
  /\ hit.file \in DOMAIN files
  /\ files[hit.file].userId = userId
  /\ ~files[hit.file].isDeleted

\* C39: whatever the analysis service lists for a semantic search (ids of
\* other users' files, of soft-deleted files, unknown ids), semanticSearch
\* returns only files of userId that are not soft-deleted, and the empty
\* list when the service is unavailable or reports failure.
C39_SearchScoped ==
  \A userId \in Users :
    /\ \A response \in SearchResponses :
         LET found == semanticSearch(userId, response) IN
         /\ ~found.raised =>
              \A i \in DOMAIN found.value : OwnAndActive(userId, found.value[i])
         /\ (response.isNull \/ ~response.success) =>
              found = Returned(<<>>)
    /\ \A collaborator \in CollaboratorStates :
         (~ensureAvailable(collaborator)
          \/ collaborator.reply \in AxiosRejections) =>
           semanticSearch(userId,
             pythonService_semanticSearch(collaborator,
                                          ListsEveryFile(userId)))
             = Returned(<<>>)

\* The store holds a file of userId, a soft-deleted file of userId and a
\* file of another user; the service lists the three and the search returns
\* the first alone.
C39_Witness ==
  \E userId \in Users, own, gone, foreign \in DOMAIN files :
    /\ OwnAndActive(userId, [file |-> own])
    /\ files[gone].userId = userId /\ files[gone].isDeleted
    /\ files[foreign].userId # userId /\ ~files[foreign].isDeleted
    /\ \A order \in {<<own, gone>>, <<gone, own>>, <<foreign, own>>} :
         semanticSearch(userId,
           SearchResponse(TRUE, TRUE,
             <<SearchEntry(order[1], ""), SearchEntry(order[2], userId)>>))
           = Returned(<<[file |-> own, score |-> 1]>>)

====
